---------------------------- MODULE Spec2Model ----------------------------
(***************************************************************************)
(* Model of the heart_simulation front-end: the interval-based BPM         *)
(* estimator and the data loaders (src/README.md, lines 100-216, the       *)
(* dataLoaders module), the synthetic ECG generator                        *)
(* (src/unnamed/part_001, the ecgGenerator module), the worker and the     *)
(* loading effect of ECGVisualization, its chart and its unmount, the QRS  *)
(* counter and timer of AnimationManager, the signal buffer, wave queue    *)
(* and pause of ReverseECG and the frame computation of HeartModel         *)
(* (src/unnamed/part_002), and App's reference-line effect with            *)
(* AnimationManager as App renders it.  Each part has its own              *)
(* specification; the variables of the other parts keep their idle values. *)
(*                                                                         *)
(* Numbers.  JavaScript numbers are modelled by exact fixed-point          *)
(* integers: times of interval records are in milliseconds, sample         *)
(* amplitudes are in units of 1/AmpScale, and a cycle fraction is the      *)
(* exact rational num/den.  IEEE-754 rounding is not modelled.             *)
(***************************************************************************)
EXTENDS Integers, Sequences, FiniteSets, TLC

VARIABLES
    intervals,      \* calculateStableBPM: the argument `intervals`
    estPc,          \* calculateStableBPM: "call" before, "done" after the call
    bpmResult,      \* calculateStableBPM: what the call produced
    length,         \* generateRealisticECG: argument `length`
    samplingRate,   \* generateRealisticECG: argument `samplingRate`
    heartRate,      \* generateRealisticECG: argument `heartRate`
    rng,            \* the Math.random source the call draws from
    i,              \* generateRealisticECG: the loop index
    posInBeat,      \* generateRealisticECG: posInBeat of the last iteration
    data,           \* generateRealisticECG: the array `data`
    genPc,          \* generateRealisticECG: "loop" or "done" (returned)
    firstData,      \* the array the caller's first call returned
    calls,          \* the number of calls of generateRealisticECG begun
    realBPM,        \* App: the realBPM state that setRealBPM writes
    setRealBPMCalls,\* the values setRealBPM was called with, in order
    ecgPc,          \* loadEcgData: "start", "awaitFetch", "awaitJson", "done"
    ecgFetch,       \* loadEcgData: how its fetch settled
    ecgJson,        \* loadEcgData: how response.json() settled
    ecgPayload,     \* loadEcgData: intervalData
    ecgCaught,      \* loadEcgData: the catch block ran
    ecgPromise,     \* loadEcgData: the promise the call returned
    heartPc,        \* loadHeartData: "start", "awaitFetch", "awaitJson", "done"
    heartFetch,     \* loadHeartData: how its fetch settled
    heartJson,      \* loadHeartData: how response.json() settled
    heartPayload,   \* loadHeartData: data
    heartPromise,   \* loadHeartData: the promise the call returned
    vizPc,          \* ECGVisualization loadIntervals: "start", "awaitFetch", "awaitJson", "done"
    vizFetch,       \* loadIntervals: how its fetch settled
    vizJson,        \* loadIntervals: how response.json() settled
    vizCaught,      \* loadIntervals: the catch block ran
    workerPc,       \* the worker: "none", "queued", "loop", "finished", "crashed"
    workerRequest,  \* the worker: e.data of the message it was sent
    workerTime,     \* the worker: the loop variable time, as the iteration index
    workerData,     \* the worker: its local array ecgData
    workerPosts,    \* the worker: the number of postMessage calls it made
    inbox,          \* messages posted by the worker and not yet handled by onmessage
    ecgData,        \* ECGVisualization: the ecgData state
    setEcgDataCalls,\* ECGVisualization: the number of setEcgData calls
    vizUnmounted,   \* ECGVisualization: the component has unmounted and its cleanups ran
    workerTerminated,\* the worker: terminate() was called on it
    setAfterUnmount,\* history: setEcgData was called after the component unmounted
    chartData,      \* ECGVisualization: chartRef.current.data.datasets[0].data
    chartTime,      \* ECGVisualization: the prop timeElapsed, in milliseconds
    chartPlaying,   \* ECGVisualization: the prop isPlaying
    chartPending,   \* ECGVisualization: the frame requested in animationRef.current is pending
    chartAge,       \* updateECG: timestamp - lastUpdate in milliseconds, -1 while lastUpdate is 0
    animPc,         \* AnimationManager: "start" (rendered), "mounted", "crashed"
    pqrstIntervals, \* AnimationManager: the prop pqrstIntervals
    timeElapsed,    \* AnimationManager: the prop timeElapsed, in milliseconds
    isPlaying,      \* AnimationManager: the prop isPlaying
    mixerSet,       \* AnimationManager: mixerRef.current is not null
    currentPhaseRef,\* AnimationManager: currentPhaseRef.current
    qrsCountRef,    \* AnimationManager: qrsCountRef.current
    lastQrsTimeSet, \* AnimationManager: lastQrsTimeRef.current holds a Date.now() value
    virtualBPM,     \* AnimationManager: the virtualBPM state
    currentPhase,   \* App: the currentPhase state that setCurrentPhase writes
    appVirtualBPM,  \* App: the virtualBPM state that onVirtualBPMChange writes
    bpmTimeoutRef,  \* AnimationManager: bpmTimeoutRef.current: "null", or the id of an "active" or a "cleared" timer
    activeTimers,   \* the number of interval timers that are set and not cleared
    lastWasTick,    \* the handler that ran last was calculateBPM, called by the timer
    revPc,          \* ReverseECG: "start" (rendered), "mounted"
    speedMultiplier,\* ReverseECG: the prop speedMultiplier
    now,            \* performance.now(), in milliseconds
    signalBuffer,   \* ReverseECG: signalBufferRef.current
    waveQueue,      \* ReverseECG: waveQueueRef.current
    simTime,        \* ReverseECG: simTimeRef.current, in units of 1/SimUnitsPerSecond s
    lastUpdateTime, \* ReverseECG: lastUpdateTimeRef.current
    framePending,   \* ReverseECG: a requested animation frame is pending
    revEcgData,     \* ReverseECG: the ecgData state
    frames,         \* ReverseECG: the number of animation frames run
    produced,       \* history: every value put into the signal buffer, in order
    enqueued,       \* history: every sample pushed on the wave queue, in order
    consumed,       \* history: every sample shifted off the wave queue, in order
    zeroFills,      \* history: the number of samples emitted with next = 0 for want of a queued one
    qrsChanges,     \* history: the number of changes of currentPhase to 'QRS'
    pausedMs,       \* history: the time (ms) ReverseECG was paused since its last frame
    onVirtualBPMChange, \* AnimationManager: the prop onVirtualBPMChange is given
    appTime,        \* App: the timeElapsed state, in milliseconds
    appIntervals,   \* App: the pqrstIntervals state
    hmPc,           \* HeartModel: "start" (rendered), "loading", "loaded", "crashed"
    hmMixerSet,     \* HeartModel: mixerRef.current is not null
    hmIntervals,    \* HeartModel: the prop pqrstIntervals
    hmTime,         \* HeartModel: the prop timeElapsed, in milliseconds
    lastPhaseRef,   \* HeartModel: lastPhaseRef.current
    currentFrame,   \* HeartModel: the currentFrame state
    targetFrame     \* HeartModel: the phase and targetFrame of the last frame computation

estVars == <<intervals, estPc, bpmResult>>

genVars == <<length, samplingRate, heartRate, rng, i, posInBeat, data, genPc,
             firstData, calls>>

ecgVars == <<realBPM, setRealBPMCalls, ecgPc, ecgFetch, ecgJson, ecgPayload,
             ecgCaught, ecgPromise>>

heartVars == <<heartPc, heartFetch, heartJson, heartPayload, heartPromise>>

loadVars == <<ecgVars, heartVars>>

chartVars == <<chartData, chartTime, chartPlaying, chartPending, chartAge>>

lifeVars == <<vizUnmounted, workerTerminated, setAfterUnmount>>

vizVars == <<vizPc, vizFetch, vizJson, vizCaught, workerPc, workerRequest,
             workerTime, workerData, workerPosts, inbox, ecgData, setEcgDataCalls,
             lifeVars, chartVars>>

animVars == <<animPc, pqrstIntervals, timeElapsed, isPlaying, mixerSet,
              currentPhaseRef, qrsCountRef, lastQrsTimeSet, virtualBPM,
              currentPhase, appVirtualBPM, bpmTimeoutRef, activeTimers, lastWasTick>>

revVars == <<revPc, speedMultiplier, now, signalBuffer, waveQueue, simTime,
             lastUpdateTime, framePending, revEcgData, frames, produced,
             enqueued, consumed, zeroFills, qrsChanges>>

appVars == <<onVirtualBPMChange, appTime, appIntervals>>

pauseVars == <<pausedMs>>

modelVars == <<hmPc, hmMixerSet, hmIntervals, hmTime, lastPhaseRef, currentFrame,
               targetFrame>>

\* the state of the components that draw and animate
uiVars == <<vizVars, animVars, revVars, modelVars, appVars, pauseVars>>

vars == <<intervals, estPc, bpmResult,
          length, samplingRate, heartRate, rng, i, posInBeat, data, genPc,
          firstData, calls,
          realBPM, setRealBPMCalls, ecgPc, ecgFetch, ecgJson, ecgPayload,
          ecgCaught, ecgPromise,
          heartPc, heartFetch, heartJson, heartPayload, heartPromise,
          vizPc, vizFetch, vizJson, vizCaught, workerPc, workerRequest,
          workerTime, workerData, workerPosts, inbox, ecgData, setEcgDataCalls,
          vizUnmounted, workerTerminated, setAfterUnmount,
          chartData, chartTime, chartPlaying, chartPending, chartAge,
          animPc, pqrstIntervals, timeElapsed, isPlaying, mixerSet,
          currentPhaseRef, qrsCountRef, lastQrsTimeSet, virtualBPM,
          currentPhase, appVirtualBPM, bpmTimeoutRef, activeTimers, lastWasTick,
          revPc, speedMultiplier, now, signalBuffer, waveQueue, simTime,
          lastUpdateTime, framePending, revEcgData, frames, produced,
          enqueued, consumed, zeroFills, qrsChanges,
          hmPc, hmMixerSet, hmIntervals, hmTime, lastPhaseRef, currentFrame,
          targetFrame, onVirtualBPMChange, appTime, appIntervals, pausedMs>>

-----------------------------------------------------------------------------
(* Bounds of the model *)

\* longest interval array handed to the estimator
MaxLen == 4
\* largest sample count asked of the generator
MaxSamples == 300
\* longest interval array the fetched resource holds
MaxLoadLen == 3
\* longest interval array sent to the worker
MaxVizLen == 2
\* largest value qrsCountRef is followed to
MaxQrsCount == 101
\* largest number of animation frames of ReverseECG
MaxFrames == 2
\* largest number of changes of currentPhase to 'QRS' seen by ReverseECG
MaxQrsChanges == 2
\* the longest time (ms) the clock is let run without a frame while paused
MaxPausedMs == 5000

-----------------------------------------------------------------------------
(* Program constants, in the units of the model *)

\* rrInterval > 0.3 (seconds), in milliseconds
RRMin == 300
\* rrInterval < 2.0 (seconds), in milliseconds
RRMax == 2000
\* 60 / avgRR with avgRR in milliseconds
MsPerMinute == 60000
\* bpm < 40
BPMMin == 40
\* bpm > 180
BPMMax == 180

-----------------------------------------------------------------------------
(* JSON values of an interval record *)

\* a JSON number n (typeof 'number')
Num(n) == [t |-> "number", v |-> n]
\* a JSON value that is not a number (a string; typeof 'string')
Str == [t |-> "string", v |-> 0]
\* a field that is absent from the record (typeof 'undefined')
Undef == [t |-> "undefined", v |-> 0]

TypeOf(x) == x.t

Rec(p, e, d) == [phase |-> p, entry |-> e, duration |-> d]

\* entry times (ms) of the QRS records the inputs are drawn from
EntryTimes == {0, 332, 333, 800, 1600, 2000, 2300, 2400}

\* the records the input arrays are built from: well-formed QRS records,
\* a record of another phase, and QRS records with a non-numeric field
IntervalRecords ==
    { Rec("QRS", Num(e), Num(100)) : e \in EntryTimes }
      \cup { Rec("PQ", Num(100), Num(150)),
             Rec("QRS", Str, Num(100)),
             Rec("QRS", Num(800), Undef) }

SeqsUpTo(S, n) == UNION { [1..k -> S] : k \in 0..n }

IntervalArrays == SeqsUpTo(IntervalRecords, MaxLen)

-----------------------------------------------------------------------------
(* calculateStableBPM *)

ErrInsufficient == "Need at least 2 QRS complexes for accurate calculation"
ErrNoValidRR == "No valid RR intervals found"
ErrOutOfRange == "Calculated BPM outside valid range"

Return(b) == [kind |-> "return", bpm |-> b, error |-> ""]
Throw(msg, b) == [kind |-> "throw", bpm |-> b, error |-> msg]
Pending == [kind |-> "pending", bpm |-> 0, error |-> ""]

\* mutant: the filter forgets the typeof tests
IsQrsEvent_NoTypeCheck(event) == event.phase = "QRS"

\* mutant: the filter forgets the phase test
IsQrsEvent_AnyPhase(event) ==
    TypeOf(event.entry) = "number" /\ TypeOf(event.duration) = "number"

\* the filter predicate of step 1
IsQrsEvent(event) ==
    /\ event.phase = "QRS"
    /\ TypeOf(event.entry) = "number"
    /\ TypeOf(event.duration) = "number"

\* intervals.filter(...)
FilterQrs(ivs) == SelectSeq(ivs, IsQrsEvent)

\* mutant: the upper limit of the range test is missing
RRValid_NoUpper(rrInterval) == rrInterval > RRMin

\* mutant: the range test is inclusive
RRValid_Inclusive(rrInterval) == rrInterval >= RRMin /\ rrInterval <= RRMax

\* the test that keeps an RR interval
RRValid(rrInterval) == rrInterval > RRMin /\ rrInterval < RRMax

\* the for loop of step 2, from index j (1-based here) on; acc = [totalRR, validRRCount]
RECURSIVE RRLoop(_, _, _)
RRLoop(qrsEvents, j, acc) ==
    IF j > Len(qrsEvents) THEN acc
    ELSE LET rrInterval == qrsEvents[j].entry.v - qrsEvents[j-1].entry.v
         IN  IF RRValid(rrInterval)
             THEN RRLoop(qrsEvents, j + 1,
                         [totalRR |-> acc.totalRR + rrInterval,
                          validRRCount |-> acc.validRRCount + 1])
             ELSE RRLoop(qrsEvents, j + 1, acc)

\* Math.round(60 / (totalRR / validRRCount)): Math.round rounds half up
RoundBPM(totalRR, validRRCount) ==
    (2 * MsPerMinute * validRRCount + totalRR) \div (2 * totalRR)

\* mutant: the lower limit is not checked
BpmOutOfRange_NoLowerCheck(bpm) == bpm > BPMMax

\* mutant: the limits themselves are refused
BpmOutOfRange_Exclusive(bpm) == bpm <= BPMMin \/ bpm >= BPMMax

\* the final validation of step 4
BpmOutOfRange(bpm) == bpm < BPMMin \/ bpm > BPMMax

calculateStableBPM(ivs) ==
    LET qrsEvents == FilterQrs(ivs)
    IN  IF Len(qrsEvents) < 2 THEN Throw(ErrInsufficient, 0)
        ELSE LET acc == RRLoop(qrsEvents, 2, [totalRR |-> 0, validRRCount |-> 0])
             IN  IF acc.validRRCount = 0 THEN Throw(ErrNoValidRR, 0)
                 ELSE LET bpm == RoundBPM(acc.totalRR, acc.validRRCount)
                      IN  IF BpmOutOfRange(bpm) THEN Throw(ErrOutOfRange, bpm)
                          ELSE Return(bpm)

-----------------------------------------------------------------------------
(* generateRealisticECG *)

\* amplitudes are integers in units of 1/AmpScale
AmpScale == 10000
\* Math.PI in units of 1/AmpScale
PiScaled == 31416
\* largest denominator the sine keeps when it reduces an angle
SinDenMax == 30000
\* Math.random() yields u / RandomScale
RandomScale == 10000

\* amplitude 0.25 of the P wave
PAmp == 2500
\* amplitude -0.2 of the Q wave
QAmp == -2000
\* amplitude 1.5 of the R wave
RAmp == 15000
\* amplitude 0.3 of the T wave
TAmp == 3000
\* the factor 0.05 of the noise term
NoiseAmp == 500
\* the factor 16.67 of the R wave, in 1/100
RFactor == 1667

\* a * s / AmpScale, rounded toward zero
MulAmp(a, s) ==
    IF a * s >= 0 THEN (a * s) \div AmpScale ELSE -((-(a * s)) \div AmpScale)

\* Math.sin of Math.PI * p / q for p >= 0 and q > 0, in units of 1/AmpScale:
\* the angle is reduced to [0, PI/2] exactly, then summed as a Taylor polynomial
SinPi(p, q) ==
    LET r0 == p % (2 * q)
        neg == r0 >= q
        r1 == IF neg THEN r0 - q ELSE r0
        r2 == IF 2 * r1 > q THEN q - r1 ELSE r1
        sc == q \div SinDenMax + 1
        rs == r2 \div sc
        qs == q \div sc
        x == (PiScaled * rs) \div qs
        x2 == (x * x) \div AmpScale
        t3 == (x * x2) \div (6 * AmpScale)
        t5 == (t3 * x2) \div (20 * AmpScale)
        t7 == (t5 * x2) \div (42 * AmpScale)
        t9 == (t7 * x2) \div (72 * AmpScale)
        s == x - t3 + t5 - t7 + t9
    IN  IF neg THEN -s ELSE s

\* posInBeat >= a/100, for posInBeat = pos.num / pos.den
AtLeast(pos, a) == 100 * pos.num >= a * pos.den
\* posInBeat < a/100
Below(pos, a) == 100 * pos.num < a * pos.den

\* mutant: the modulo is forgotten
PosInBeat_NoModulo(idx, rate, hr) == [num |-> idx * hr, den |-> 60 * rate]

\* (i % samplesPerBeat) / samplesPerBeat with samplesPerBeat = (60 / heartRate) * samplingRate,
\* as the exact fraction ((i * heartRate) mod (60 * samplingRate)) / (60 * samplingRate)
PosInBeat(idx, rate, hr) ==
    [num |-> (idx * hr) % (60 * rate), den |-> 60 * rate]

\* mutant: the R wave has the amplitude 1.8 of the interval-driven generator
RWave_Amp18(pos) ==
    MulAmp(18000, SinPi(RFactor * (100 * pos.num - 22 * pos.den), 10000 * pos.den))

\* 1.5 * Math.sin((posInBeat - 0.22) * Math.PI * 16.67)
RWave(pos) ==
    MulAmp(RAmp, SinPi(RFactor * (100 * pos.num - 22 * pos.den), 10000 * pos.den))

\* posInBeat >= 0.1 && posInBeat < 0.2
InPWave(pos) == AtLeast(pos, 10) /\ Below(pos, 20)
\* posInBeat >= 0.2 && posInBeat < 0.3
InQRS(pos) == AtLeast(pos, 20) /\ Below(pos, 30)
\* posInBeat >= 0.22 && posInBeat < 0.28
InRWave(pos) == AtLeast(pos, 22) /\ Below(pos, 28)

\* mutant: the T wave window starts at 0.3
InTWave_From30(pos) == AtLeast(pos, 30) /\ Below(pos, 60)

\* posInBeat >= 0.4 && posInBeat < 0.6
InTWave(pos) == AtLeast(pos, 40) /\ Below(pos, 60)

\* the value before the noise is added: baseline 0, P wave, QRS complex, T wave
Waveform(pos) ==
    IF InPWave(pos)
    THEN MulAmp(PAmp, SinPi(10 * pos.num - pos.den, pos.den))
    ELSE IF InQRS(pos)
    THEN IF InRWave(pos)
         THEN RWave(pos)
         ELSE MulAmp(QAmp, SinPi(20 * pos.num - 4 * pos.den, pos.den))
    ELSE IF InTWave(pos)
    THEN MulAmp(TAmp, SinPi(5 * pos.num - 2 * pos.den, pos.den))
    ELSE 0

\* the sources of Math.random the calls draw from: each gives the draw u of iteration idx
RandomSources == {"low", "mid", "high", "alternating"}

\* the draw of Math.random() in iteration idx, in units of 1/RandomScale: 0 <= u < RandomScale
RandomDraw(src, idx) ==
    CASE src = "low" -> 0
      [] src = "mid" -> RandomScale \div 2
      [] src = "high" -> RandomScale - 1
      [] OTHER -> IF idx % 2 = 0 THEN 0 ELSE RandomScale - 1

\* (Math.random() - 0.5) * 0.05
Noise(u) ==
    LET n == (2 * u - RandomScale) * NoiseAmp
    IN  IF n >= 0 THEN n \div (2 * RandomScale) ELSE -((-n) \div (2 * RandomScale))

\* mutant: the time is the sample index, not divided by the sampling rate
SampleTime_Index(idx, rate) == [num |-> idx, den |-> 1]

\* i / samplingRate
SampleTime(idx, rate) == [num |-> idx, den |-> rate]

\* the point pushed by iteration idx
ECGSample(idx, rate, hr, src) ==
    [time |-> SampleTime(idx, rate),
     value |-> Waveform(PosInBeat(idx, rate, hr)) + Noise(RandomDraw(src, idx))]

\* mutant: the array is module-level state that outlives the call
InitialData_Shared == data

\* const data = []: every call starts from a fresh array
InitialData == <<>>

\* mutant: the loop runs one iteration too many
LoopContinues_Inclusive(idx, len) == idx <= len

\* the loop test i < length
LoopContinues(idx, len) == idx < len

\* the number of iterations the loop makes: the first idx that fails the loop test
Iterations(len) ==
    CHOOSE n \in 0..(len + 1) :
        /\ ~ LoopContinues(n, len)
        /\ n = 0 \/ LoopContinues(n - 1, len)

\* the whole call: the array of the points pushed by iterations 0, 1, ...
generateRealisticECG(len, rate, hr, src) ==
    [k \in 1..Iterations(len) |-> ECGSample(k - 1, rate, hr, src)]

\* the arguments the generator is called with
SampleCounts == {0, 1, 2, MaxSamples}
SamplingRates == {7, 300, 360}
HeartRates == {40, 70, 72, 180}

-----------------------------------------------------------------------------
(* loadEcgData and loadHeartData *)

\* the number of data points loadEcgData asks for
LoadSamples == 1000
\* ECG_CONFIG.SAMPLING_RATE
SAMPLING_RATE == 360
\* fallbackBPM
FallbackBPM == 72
\* useState(72) of realBPM in App
InitialRealBPM == 72

\* the value response.json() resolves to: an array of records, or another JSON value
JsonArray(items) == [isArray |-> TRUE, kind |-> "array", items |-> items]
\* the JSON value {}
JsonObject == [isArray |-> FALSE, kind |-> "object", items |-> <<>>]
\* the JSON value null
JsonNull == [isArray |-> FALSE, kind |-> "null", items |-> <<>>]
\* nothing parsed yet
NoPayload == [isArray |-> FALSE, kind |-> "none", items |-> <<>>]

\* the records of the fetched resources
LoadRecords ==
    { Rec("QRS", Num(0), Num(100)),
      Rec("QRS", Num(800), Num(100)),
      Rec("QRS", Num(1600), Num(100)),
      Rec("QRS", Num(800), Undef),
      Rec("PQ", Num(100), Num(150)) }

\* the JSON values the resource /pqrst_intervals.json may hold
LoadPayloads ==
    {JsonObject, JsonNull} \cup { JsonArray(a) : a \in SeqsUpTo(LoadRecords, MaxLoadLen) }

\* how an awaited fetch settles: rejected, or a response with ok false or true
FetchOutcomes == {"rejected", "notOk", "ok"}

\* the random sources of the generator calls of the loader
LoadRandomSources == {"mid", "alternating"}

PromisePending == [state |-> "pending", isNull |-> TRUE, value |-> <<>>]
Fulfilled(v) == [state |-> "fulfilled", isNull |-> FALSE, value |-> v]
FulfilledNull == [state |-> "fulfilled", isNull |-> TRUE, value |-> <<>>]
Rejected == [state |-> "rejected", isNull |-> TRUE, value |-> <<>>]

\* Array.isArray(intervalData)
IsArray(p) == p.isArray

\* setRealBPM(bpm); return generateRealisticECG(1000, ECG_CONFIG.SAMPLING_RATE, bpm)
EcgSetAndGenerate(bpm) ==
    /\ setRealBPMCalls' = Append(setRealBPMCalls, bpm)
    /\ realBPM' = bpm
    /\ ecgPromise' = Fulfilled(generateRealisticECG(LoadSamples, SAMPLING_RATE, bpm, rng))
    /\ ecgPc' = "done"

\* mutant: the catch block logs the error and throws it again
EcgCatch_Rethrow ==
    /\ ecgCaught' = TRUE
    /\ ecgPromise' = Rejected
    /\ ecgPc' = "done"
    /\ UNCHANGED <<realBPM, setRealBPMCalls>>

\* the catch block: fall back to 72
EcgCatch ==
    /\ ecgCaught' = TRUE
    /\ EcgSetAndGenerate(FallbackBPM)

\* the rest of the try block once intervalData is there
EcgProcess(intervalData) ==
    IF ~ IsArray(intervalData) THEN EcgCatch
    ELSE LET stableBPM == calculateStableBPM(intervalData.items)
         IN  IF stableBPM.kind = "throw" THEN EcgCatch
             ELSE /\ EcgSetAndGenerate(stableBPM.bpm)
                  /\ UNCHANGED ecgCaught

\* loadEcgData is called and awaits fetch('/pqrst_intervals.json')
LoadEcgDataCall ==
    /\ ecgPc = "start"
    /\ ecgPc' = "awaitFetch"
    /\ UNCHANGED <<realBPM, setRealBPMCalls, ecgFetch, ecgJson, ecgPayload,
                   ecgCaught, ecgPromise>>
    /\ UNCHANGED <<estVars, genVars, heartVars>>
    /\ UNCHANGED uiVars

\* the fetch settles: the function resumes, and awaits response.json() if response.ok
EcgFetchSettles ==
    /\ ecgPc = "awaitFetch"
    /\ \E outcome \in FetchOutcomes :
          /\ ecgFetch' = outcome
          /\ IF outcome = "ok"
             THEN /\ ecgPc' = "awaitJson"
                  /\ UNCHANGED <<realBPM, setRealBPMCalls, ecgCaught, ecgPromise>>
             ELSE EcgCatch
    /\ UNCHANGED <<ecgJson, ecgPayload>>
    /\ UNCHANGED <<estVars, genVars, heartVars>>
    /\ UNCHANGED uiVars

\* response.json() rejects: the body is not JSON
EcgJsonRejects ==
    /\ ecgPc = "awaitJson"
    /\ ecgJson' = "rejected"
    /\ EcgCatch
    /\ UNCHANGED <<ecgFetch, ecgPayload>>
    /\ UNCHANGED <<estVars, genVars, heartVars>>
    /\ UNCHANGED uiVars

\* response.json() resolves: the function runs to its end
EcgJsonResolves ==
    /\ ecgPc = "awaitJson"
    /\ \E p \in LoadPayloads :
          /\ ecgJson' = "parsed"
          /\ ecgPayload' = p
          /\ EcgProcess(p)
    /\ UNCHANGED ecgFetch
    /\ UNCHANGED <<estVars, genVars, heartVars>>
    /\ UNCHANGED uiVars

\* mutant: the empty array is not refused
HeartValidate_NoEmptyCheck(d) == IsArray(d)

\* the data validation checks of loadHeartData
HeartValidate(d) == IsArray(d) /\ Len(d.items) # 0

\* the catch block: return null
HeartCatch ==
    /\ heartPromise' = FulfilledNull
    /\ heartPc' = "done"

\* loadHeartData is called and awaits fetch('/pqrst_intervals.json')
LoadHeartDataCall ==
    /\ heartPc = "start"
    /\ heartPc' = "awaitFetch"
    /\ UNCHANGED <<heartFetch, heartJson, heartPayload, heartPromise>>
    /\ UNCHANGED <<estVars, genVars, ecgVars>>
    /\ UNCHANGED uiVars

\* the fetch settles: the function resumes, and awaits response.json() if response.ok
HeartFetchSettles ==
    /\ heartPc = "awaitFetch"
    /\ \E outcome \in FetchOutcomes :
          /\ heartFetch' = outcome
          /\ IF outcome = "ok"
             THEN heartPc' = "awaitJson" /\ UNCHANGED heartPromise
             ELSE HeartCatch
    /\ UNCHANGED <<heartJson, heartPayload>>
    /\ UNCHANGED <<estVars, genVars, ecgVars>>
    /\ UNCHANGED uiVars

\* response.json() rejects: the body is not JSON
HeartJsonRejects ==
    /\ heartPc = "awaitJson"
    /\ heartJson' = "rejected"
    /\ HeartCatch
    /\ UNCHANGED <<heartFetch, heartPayload>>
    /\ UNCHANGED <<estVars, genVars, ecgVars>>
    /\ UNCHANGED uiVars

\* response.json() resolves: validate and return data
HeartJsonResolves ==
    /\ heartPc = "awaitJson"
    /\ \E p \in LoadPayloads :
          /\ heartJson' = "parsed"
          /\ heartPayload' = p
          /\ IF HeartValidate(p)
             THEN heartPromise' = Fulfilled(p.items) /\ heartPc' = "done"
             ELSE HeartCatch
    /\ UNCHANGED heartFetch
    /\ UNCHANGED <<estVars, genVars, ecgVars>>
    /\ UNCHANGED uiVars

-----------------------------------------------------------------------------
(* ECGVisualization: loadIntervals and the worker made by createWorker *)

\* ECG_CONFIG.SAMPLING_RATE of the component
VizSamplingRate == 300
\* interval times are in milliseconds: 1 second of the code is 1000
MsPerSecond == 1000

\* a number that is NaN
NaN == [t |-> "NaN", v |-> 0]

\* amplitude -0.3 of the first QRS segment
QrsDipAmp == -3000
\* amplitude 1.8 of the QRS spike
QrsSpikeAmp == 18000
\* amplitude -0.4 of the third QRS segment
QrsTailAmp == -4000
\* amplitude 0.2 of the PQ shape
PqAmp == 2000
\* the value 0.05 of the first part of ST
StLevel == 500
\* amplitude 0.35 of the second part of ST
StAmp == 3500
\* number of terms of the series that stands for Math.exp
ExpTerms == 14

\* the records of the resource the component fetches
VizPhases == {"QRS", "PQ", "ST", "T"}
VizEntries == {0, 10}
VizDurations == {10, 30}
VizRecords ==
    { Rec(ph, Num(e), Num(d)) : ph \in VizPhases, e \in VizEntries, d \in VizDurations }
      \cup { Rec("QRS", Num(0), Num(0)), Rec("QRS", Num(10), Undef) }

\* the JSON values response.json() may resolve to
VizPayloads ==
    {JsonObject, JsonNull} \cup { JsonArray(a) : a \in SeqsUpTo(VizRecords, MaxVizLen) }

\* how the awaited fetch settles (response.ok is not looked at)
VizFetchOutcomes == {"rejected", "resolved"}

\* the message { intervals, samplingRate } sent to the worker
Request(p, rate) == [intervals |-> p, samplingRate |-> rate]
NoRequest == [intervals |-> NoPayload, samplingRate |-> 0]

\* a + b of two JSON values that are numbers or undefined
Plus(a, b) ==
    IF TypeOf(a) = "number" /\ TypeOf(b) = "number" THEN Num(a.v + b.v) ELSE NaN

\* time < x, for time = k / rate seconds and x a number (ms) or NaN
TimeBelow(k, rate, x) == TypeOf(x) = "number" /\ k * MsPerSecond < x.v * rate

\* time >= x, for time = k / rate seconds and x a number (ms) or undefined
TimeAtLeast(k, rate, x) == TypeOf(x) = "number" /\ k * MsPerSecond >= x.v * rate

\* mutant: the end of the interval belongs to it
Contains_Inclusive(interval, k, rate) ==
    /\ TimeAtLeast(k, rate, interval.entry)
    /\ TypeOf(interval.duration) = "number"
    /\ k * MsPerSecond <= (interval.entry.v + interval.duration.v) * rate

\* time >= interval.entry && time < interval.entry + interval.duration
Contains(interval, k, rate) ==
    /\ TimeAtLeast(k, rate, interval.entry)
    /\ TimeBelow(k, rate, Plus(interval.entry, interval.duration))

\* phaseProgress = (time - interval.entry) / interval.duration, as an exact fraction
PhaseProgress(interval, k, rate) ==
    [num |-> k * MsPerSecond - interval.entry.v * rate,
     den |-> interval.duration.v * rate]

\* phaseProgress < a/100
ProgressBelow(pp, a) == 100 * pp.num < a * pp.den

\* Math.exp(-x) for x = xs / AmpScale in [0, 2], in units of 1/AmpScale: the
\* series 1 - x + x^2/2 - ..., from term number n on
RECURSIVE ExpSeries(_, _, _, _)
ExpSeries(xs, n, term, acc) ==
    IF n > ExpTerms THEN acc
    ELSE LET next == (term * xs) \div (n * AmpScale)
         IN  ExpSeries(xs, n + 1, next, IF n % 2 = 1 THEN acc - next ELSE acc + next)

\* Math.exp(-p/q) for 0 <= p/q <= 2
ExpNeg(p, q) == ExpSeries((AmpScale * p) \div q, 1, AmpScale, AmpScale)

\* case 'QRS': a dip, a sine spike, a linear return, then 0
ShapeQRS(pp) ==
    IF ProgressBelow(pp, 15)
    THEN MulAmp(QrsDipAmp, AmpScale - SinPi(15 * pp.den - 100 * pp.num, 30 * pp.den))
    ELSE IF ProgressBelow(pp, 35)
    THEN MulAmp(QrsSpikeAmp, SinPi(100 * pp.num - 15 * pp.den, 20 * pp.den))
    ELSE IF ProgressBelow(pp, 60)
    THEN -((-QrsTailAmp * (60 * pp.den - 100 * pp.num)) \div (25 * pp.den))
    ELSE 0

\* case 'PQ': 0.2 * Math.sin(Math.PI * phaseProgress * 2.5)
ShapePQ(pp) == MulAmp(PqAmp, SinPi(5 * pp.num, 2 * pp.den))

\* case 'ST': 0.05, then a decaying sine
ShapeST(pp) ==
    IF ProgressBelow(pp, 40) THEN StLevel
    ELSE MulAmp(MulAmp(StAmp, SinPi(10 * pp.num - 4 * pp.den, 6 * pp.den)),
                ExpNeg(10 * pp.num - 4 * pp.den, 3 * pp.den))

\* the switch on interval.phase
PhaseValue(phase, pp) ==
    CASE phase = "QRS" -> ShapeQRS(pp)
      [] phase = "PQ" -> ShapePQ(pp)
      [] phase = "ST" -> ShapeST(pp)
      [] OTHER -> 0

\* generateECGPoint(time): the for-of loop from element j on
RECURSIVE GenerateECGPoint(_, _, _, _)
GenerateECGPoint(ivs, j, k, rate) ==
    IF j > Len(ivs) THEN 0
    ELSE IF Contains(ivs[j], k, rate)
         THEN PhaseValue(ivs[j].phase, PhaseProgress(ivs[j], k, rate))
         ELSE GenerateECGPoint(ivs, j + 1, k, rate)

\* intervals[intervals.length-1] is undefined (or intervals is null): reading
\* its entry throws a TypeError
LastIntervalMissing(p) == ~ IsArray(p) \/ Len(p.items) = 0

\* totalDuration
TotalDuration(ivs) == Plus(ivs[Len(ivs)].entry, ivs[Len(ivs)].duration)

\* mutant: the worker posts its array after every push
IterationPosts_Progress(arr) == <<arr>>

\* the messages an iteration of the worker's loop posts: none
IterationPosts(arr) == <<>>

\* the effect runs: loadIntervals is called and awaits fetch
VizLoadIntervalsCall ==
    /\ vizPc = "start"
    /\ vizPc' = "awaitFetch"
    /\ UNCHANGED <<vizFetch, vizJson, vizCaught, workerPc, workerRequest,
                   workerTime, workerData, workerPosts, inbox, ecgData,
                   setEcgDataCalls>>
    /\ UNCHANGED <<estVars, genVars, loadVars, pauseVars, appVars, modelVars, lifeVars, chartVars, animVars, revVars>>

\* the fetch settles; a rejection is caught and logged
VizFetchSettles ==
    /\ vizPc = "awaitFetch"
    /\ \E outcome \in VizFetchOutcomes :
          /\ vizFetch' = outcome
          /\ IF outcome = "resolved"
             THEN vizPc' = "awaitJson" /\ UNCHANGED vizCaught
             ELSE vizPc' = "done" /\ vizCaught' = TRUE
    /\ UNCHANGED <<vizJson, workerPc, workerRequest, workerTime, workerData,
                   workerPosts, inbox, ecgData, setEcgDataCalls>>
    /\ UNCHANGED <<estVars, genVars, loadVars, pauseVars, appVars, modelVars, lifeVars, chartVars, animVars, revVars>>

\* response.json() rejects; the rejection is caught and logged
VizJsonRejects ==
    /\ vizPc = "awaitJson"
    /\ vizJson' = "rejected"
    /\ vizCaught' = TRUE
    /\ vizPc' = "done"
    /\ UNCHANGED <<vizFetch, workerPc, workerRequest, workerTime, workerData,
                   workerPosts, inbox, ecgData, setEcgDataCalls>>
    /\ UNCHANGED <<estVars, genVars, loadVars, pauseVars, appVars, modelVars, lifeVars, chartVars, animVars, revVars>>

\* response.json() resolves: the worker is created and sent the intervals,
\* and onmessage is set
VizJsonResolves ==
    /\ vizPc = "awaitJson"
    /\ \E p \in VizPayloads :
          workerRequest' = Request(p, VizSamplingRate)
    /\ vizJson' = "parsed"
    /\ workerPc' = "queued"
    /\ vizPc' = "done"
    /\ UNCHANGED <<vizFetch, vizCaught, workerTime, workerData, workerPosts,
                   inbox, ecgData, setEcgDataCalls>>
    /\ UNCHANGED <<estVars, genVars, loadVars, pauseVars, appVars, modelVars, lifeVars, chartVars, animVars, revVars>>

\* self.onmessage starts: totalDuration is computed, or the TypeError ends the handler
WorkerOnMessage ==
    /\ workerPc = "queued"
    /\ ~ workerTerminated
    /\ IF LastIntervalMissing(workerRequest.intervals)
       THEN workerPc' = "crashed"
       ELSE workerPc' = "loop"
    /\ workerTime' = 0
    /\ workerData' = <<>>
    /\ UNCHANGED <<vizPc, vizFetch, vizJson, vizCaught, workerRequest,
                   workerPosts, inbox, ecgData, setEcgDataCalls>>
    /\ UNCHANGED <<estVars, genVars, loadVars, pauseVars, appVars, modelVars, lifeVars, chartVars, animVars, revVars>>

\* one iteration of the worker's for loop
WorkerIterate ==
    /\ workerPc = "loop"
    /\ ~ workerTerminated
    /\ TimeBelow(workerTime, workerRequest.samplingRate,
                 TotalDuration(workerRequest.intervals.items))
    /\ LET point == [time |-> SampleTime(workerTime, workerRequest.samplingRate),
                     value |-> GenerateECGPoint(workerRequest.intervals.items, 1,
                                                workerTime, workerRequest.samplingRate)]
       IN  /\ workerData' = Append(workerData, point)
           /\ inbox' = inbox \o IterationPosts(Append(workerData, point))
           /\ workerPosts' = workerPosts + Len(IterationPosts(Append(workerData, point)))
    /\ workerTime' = workerTime + 1
    /\ UNCHANGED <<vizPc, vizFetch, vizJson, vizCaught, workerPc, workerRequest,
                   ecgData, setEcgDataCalls>>
    /\ UNCHANGED <<estVars, genVars, loadVars, pauseVars, appVars, modelVars, lifeVars, chartVars, animVars, revVars>>

\* the loop test fails: postMessage(ecgData)
WorkerPost ==
    /\ workerPc = "loop"
    /\ ~ workerTerminated
    /\ ~ TimeBelow(workerTime, workerRequest.samplingRate,
                   TotalDuration(workerRequest.intervals.items))
    /\ inbox' = Append(inbox, workerData)
    /\ workerPosts' = workerPosts + 1
    /\ workerPc' = "finished"
    /\ UNCHANGED <<vizPc, vizFetch, vizJson, vizCaught, workerRequest,
                   workerTime, workerData, ecgData, setEcgDataCalls>>
    /\ UNCHANGED <<estVars, genVars, loadVars, pauseVars, appVars, modelVars, lifeVars, chartVars, animVars, revVars>>

\* ECG_CONFIG.POINTS
POINTS == 800

\* updateInterval = 1000 / 30
UpdatesPerSecond == 30

\* Array(ECG_CONFIG.POINTS).fill(0), the dataset the chart is created with
InitialDataset == [j \in 1..POINTS |-> 0]

\* sampleIdx
SampleIdx(t, samples) ==
    LET byTime == (t * VizSamplingRate) \div MsPerSecond
    IN  IF byTime < Len(samples) - 1 THEN byTime ELSE Len(samples) - 1

\* mutant: the window starts at the first sample
WindowStart_FromZero(sampleIdx) == 0

\* windowStart
WindowStart(sampleIdx) == IF sampleIdx - POINTS > 0 THEN sampleIdx - POINTS ELSE 0

\* displayData = ecgData.slice(windowStart, sampleIdx).map(d => d.value)
DisplayData(samples, windowStart, sampleIdx) ==
    [j \in 1..(IF sampleIdx > windowStart THEN sampleIdx - windowStart ELSE 0) |->
        samples[windowStart + j].value]

\* the dataset updateECG leaves: zeros and displayData, or the dataset it found
DatasetAfter(dataset, t, samples) ==
    LET sampleIdx == SampleIdx(t, samples)
        displayData == DisplayData(samples, WindowStart(sampleIdx), sampleIdx)
        pad == IF POINTS - Len(displayData) > 0 THEN POINTS - Len(displayData) ELSE 0
    IN  IF Len(displayData) > 0
        THEN [j \in 1..pad |-> 0] \o displayData
        ELSE dataset

\* the update effect's body: whether it leaves a frame requested
FrameRequested(dataset, samples, playing) ==
    dataset # <<>> /\ Len(samples) # 0 /\ playing

\* the gaps between the timestamps of two animation frames, in milliseconds
ChartFrameGaps == {16, 17}

\* the values of timeElapsed the component is rendered with, in milliseconds
ChartTimes == {0, 3, 4, 1000, 2667, 2670, 3000, 5000}

\* workerRef.current.onmessage: setEcgData(e.data); the update effect runs again
VizOnMessage ==
    /\ inbox # <<>>
    /\ inbox' = Tail(inbox)
    /\ setEcgDataCalls' = setEcgDataCalls + 1
    /\ IF vizUnmounted
       THEN /\ setAfterUnmount' = TRUE
            /\ UNCHANGED <<ecgData, chartPending, chartAge>>
       ELSE /\ ecgData' = Head(inbox)
            /\ chartPending' = FrameRequested(chartData, Head(inbox), chartPlaying)
            /\ chartAge' = -1
            /\ UNCHANGED setAfterUnmount
    /\ UNCHANGED <<vizPc, vizFetch, vizJson, vizCaught, workerPc, workerRequest,
                   workerTime, workerData, workerPosts>>
    /\ UNCHANGED <<vizUnmounted, workerTerminated>>
    /\ UNCHANGED <<chartData, chartTime, chartPlaying>>
    /\ UNCHANGED <<estVars, genVars, loadVars, pauseVars, appVars, modelVars, animVars, revVars>>

\* the component unmounts: the cleanup of the loading effect terminates the
\* worker in workerRef.current, if there is one, which also discards the
\* messages it posted that are not yet handled; the cleanup of the update
\* effect cancels the requested frame
VizUnmount ==
    /\ vizPc \in {"awaitFetch", "awaitJson", "done"}
    /\ ~ vizUnmounted
    /\ vizUnmounted' = TRUE
    /\ IF workerPc # "none"
       THEN workerTerminated' = TRUE /\ inbox' = <<>>
       ELSE UNCHANGED <<workerTerminated, inbox>>
    /\ chartPending' = FALSE
    /\ UNCHANGED <<vizPc, vizFetch, vizJson, vizCaught, workerPc, workerRequest,
                   workerTime, workerData, workerPosts, ecgData, setEcgDataCalls,
                   setAfterUnmount>>
    /\ UNCHANGED <<chartData, chartTime, chartPlaying, chartAge>>
    /\ UNCHANGED <<estVars, genVars, loadVars, pauseVars, appVars, modelVars, animVars, revVars>>

\* a requested animation frame runs updateECG, which requests the next one
ChartFrame ==
    /\ chartPending
    /\ \E gap \in ChartFrameGaps :
          IF chartAge = -1 \/ UpdatesPerSecond * (chartAge + gap) >= MsPerSecond
          THEN /\ chartAge' = 0
               /\ chartData' = DatasetAfter(chartData, chartTime, ecgData)
          ELSE /\ chartAge' = chartAge + gap
               /\ UNCHANGED chartData
    /\ UNCHANGED <<chartTime, chartPlaying, chartPending>>
    /\ UNCHANGED <<vizPc, vizFetch, vizJson, vizCaught, workerPc, workerRequest,
                   workerTime, workerData, workerPosts, inbox, ecgData,
                   setEcgDataCalls>>
    /\ UNCHANGED <<estVars, genVars, loadVars, pauseVars, appVars, modelVars, lifeVars, animVars, revVars>>

\* App's setTimeElapsed(t => t + delta) renders the component with a later
\* timeElapsed; the update effect's cleanup and body run
ChartTimeUpdate ==
    /\ chartData # <<>>
    /\ \E t \in ChartTimes :
          /\ t > chartTime
          /\ chartTime' = t
    /\ chartPending' = FrameRequested(chartData, ecgData, chartPlaying)
    /\ chartAge' = -1
    /\ UNCHANGED <<chartData, chartPlaying>>
    /\ UNCHANGED <<vizPc, vizFetch, vizJson, vizCaught, workerPc, workerRequest,
                   workerTime, workerData, workerPosts, inbox, ecgData,
                   setEcgDataCalls>>
    /\ UNCHANGED <<estVars, genVars, loadVars, pauseVars, appVars, modelVars, lifeVars, animVars, revVars>>

\* the prop isPlaying changes; the update effect's cleanup and body run
ChartTogglePlaying ==
    /\ chartData # <<>>
    /\ chartPlaying' = ~ chartPlaying
    /\ chartPending' = FrameRequested(chartData, ecgData, ~ chartPlaying)
    /\ chartAge' = -1
    /\ UNCHANGED <<chartData, chartTime>>
    /\ UNCHANGED <<vizPc, vizFetch, vizJson, vizCaught, workerPc, workerRequest,
                   workerTime, workerData, workerPosts, inbox, ecgData,
                   setEcgDataCalls>>
    /\ UNCHANGED <<estVars, genVars, loadVars, pauseVars, appVars, modelVars, lifeVars, animVars, revVars>>

-----------------------------------------------------------------------------
(* AnimationManager *)

\* useState(72) of virtualBPM in App
InitialVirtualBPM == 72
\* Math.min(qrsCountRef.current * 2, 200)
VirtualBPMCap == 200

\* PHASE_TO_FRAMES
PHASE_TO_FRAMES == [QRS |-> <<0, 4>>, PQ |-> <<5, 14>>, ST |-> <<15, 24>>]

\* the interval arrays the component is given: none, consecutive phases, and
\* overlapping intervals
AnimIntervalArrays ==
    { <<>>,
      << Rec("QRS", Num(0), Num(100)), Rec("PQ", Num(100), Num(100)),
         Rec("T", Num(200), Num(100)) >>,
      << Rec("PQ", Num(0), Num(200)), Rec("QRS", Num(100), Num(200)) >> }

\* the values timeElapsed is updated to (ms)
AnimTimes == {50, 150, 250}

\* timeElapsed >= interval.entry && timeElapsed < interval.entry + interval.duration
InInterval(interval, t) ==
    /\ TypeOf(interval.entry) = "number"
    /\ t >= interval.entry.v
    /\ TypeOf(interval.duration) = "number"
    /\ t < interval.entry.v + interval.duration.v

\* newPhase after the for-of loop, from element j on
RECURSIVE NewPhase(_, _, _)
NewPhase(ivs, j, t) ==
    IF j > Len(ivs) THEN "ST"
    ELSE IF InInterval(ivs[j], t) THEN ivs[j].phase
         ELSE NewPhase(ivs, j + 1, t)

\* now - lastQrsTimeRef.current > 200: true while lastQrsTimeRef.current is 0,
\* and as the clock has it afterwards
DebounceOutcomes == IF lastQrsTimeSet THEN BOOLEAN ELSE {TRUE}

\* mutant: a QRS is counted on every update that finds the QRS phase
EntersQrs_NoRefTest(newPhase) == newPhase = "QRS"

\* newPhase === 'QRS' && currentPhaseRef.current !== 'QRS'
EntersQrs(newPhase) == newPhase = "QRS" /\ currentPhaseRef # "QRS"

\* updateAnimationForPhase(phase) throws: the mixer is there and
\* PHASE_TO_FRAMES[phase] is undefined
UpdateAnimationThrows(phase) == mixerSet /\ phase \notin DOMAIN PHASE_TO_FRAMES

\* the phase effect throws for this newPhase
PhaseEffectThrows(newPhase) ==
    /\ Len(pqrstIntervals) # 0
    /\ currentPhaseRef # newPhase
    /\ UpdateAnimationThrows(newPhase)

\* the effect on [timeElapsed, pqrstIntervals, setCurrentPhase], for the time
\* t: what it does to the refs
PhaseEffectRefs(t) ==
    IF Len(pqrstIntervals) = 0
    THEN UNCHANGED <<currentPhaseRef, qrsCountRef, lastQrsTimeSet>>
    ELSE LET newPhase == NewPhase(pqrstIntervals, 1, t)
         IN  /\ IF EntersQrs(newPhase)
                THEN \E over200 \in DebounceOutcomes :
                        IF over200
                        THEN /\ qrsCountRef < MaxQrsCount
                             /\ qrsCountRef' = qrsCountRef + 1
                             /\ lastQrsTimeSet' = TRUE
                        ELSE UNCHANGED <<qrsCountRef, lastQrsTimeSet>>
                ELSE UNCHANGED <<qrsCountRef, lastQrsTimeSet>>
             /\ IF currentPhaseRef # newPhase
                THEN currentPhaseRef' = newPhase
                ELSE UNCHANGED currentPhaseRef

\* the same effect: whether it calls setCurrentPhase(newPhase)
CallsSetCurrentPhase(t) ==
    Len(pqrstIntervals) # 0 /\ currentPhaseRef # NewPhase(pqrstIntervals, 1, t)

\* the same effect, with App's currentPhase after it
PhaseEffect(t) ==
    /\ PhaseEffectRefs(t)
    /\ IF CallsSetCurrentPhase(t)
       THEN currentPhase' = NewPhase(pqrstIntervals, 1, t)
       ELSE UNCHANGED currentPhase

\* mutant: the cleanup of the timer effect clears nothing
TimerCleanup_Nothing(timer) == timer

\* the cleanup of the timer effect: clearInterval(bpmTimeoutRef.current) if it is set
TimerCleanup(timer) ==
    IF timer.ref = "active"
    THEN [ref |-> "cleared", active |-> timer.active - 1]
    ELSE timer

\* the timer effect: setInterval(calculateBPM, 1000) if isPlaying
TimerEffect(playing, timer) ==
    IF playing THEN [ref |-> "active", active |-> timer.active + 1] ELSE timer

\* bpmTimeoutRef.current and the timers that run
Timer == [ref |-> bpmTimeoutRef, active |-> activeTimers]

\* an effect threw: the tree is unmounted and the cleanups run
Crash ==
    /\ animPc' = "crashed"
    /\ bpmTimeoutRef' = TimerCleanup(Timer).ref
    /\ activeTimers' = TimerCleanup(Timer).active

\* the component is committed: its three effects run for the first time
AnimMount ==
    /\ animPc = "start"
    /\ hmPc # "crashed"
    /\ PhaseEffect(timeElapsed)
    /\ IF PhaseEffectThrows(NewPhase(pqrstIntervals, 1, timeElapsed))
       THEN Crash
       ELSE /\ animPc' = "mounted"
            /\ bpmTimeoutRef' = TimerEffect(isPlaying, Timer).ref
            /\ activeTimers' = TimerEffect(isPlaying, Timer).active
    /\ lastWasTick' = FALSE
    /\ UNCHANGED <<pqrstIntervals, timeElapsed, isPlaying, mixerSet, virtualBPM,
                   appVirtualBPM>>
    /\ UNCHANGED <<estVars, genVars, loadVars, pauseVars, appVars, modelVars, vizVars, revVars>>

\* initialize(mixer), called through the ref
AnimInitialize ==
    /\ animPc = "mounted"
    /\ hmPc # "crashed"
    /\ ~ mixerSet
    /\ mixerSet' = TRUE
    /\ lastWasTick' = FALSE
    /\ UNCHANGED <<animPc, pqrstIntervals, timeElapsed, isPlaying, currentPhaseRef,
                   qrsCountRef, lastQrsTimeSet, virtualBPM, currentPhase,
                   appVirtualBPM, bpmTimeoutRef, activeTimers>>
    /\ UNCHANGED <<estVars, genVars, loadVars, pauseVars, appVars, modelVars, vizVars, revVars>>

\* timeElapsed changes: the phase effect runs again
AnimTimeUpdate ==
    /\ animPc = "mounted"
    /\ hmPc # "crashed"
    /\ \E t \in AnimTimes \ {timeElapsed} :
          /\ timeElapsed' = t
          /\ PhaseEffect(t)
          /\ IF PhaseEffectThrows(NewPhase(pqrstIntervals, 1, t))
             THEN Crash
             ELSE UNCHANGED <<animPc, bpmTimeoutRef, activeTimers>>
    /\ lastWasTick' = FALSE
    /\ UNCHANGED <<pqrstIntervals, isPlaying, mixerSet, virtualBPM, appVirtualBPM>>
    /\ UNCHANGED <<estVars, genVars, loadVars, pauseVars, appVars, modelVars, vizVars, revVars>>

\* the time of a component rendered without the prop timeElapsed: undefined,
\* which no interval contains
NoTime == -1

\* mutant: setVirtualBPM is the setter App passes as a prop
AppAfterSetVirtualBPM_Prop(app, value) == value

\* App's virtualBPM after AnimationManager calls setVirtualBPM(value): the
\* setter of its own state, which leaves App's state as it is
AppAfterSetVirtualBPM(app, value) == app

\* App's virtualBPM after calculateBPM's setVirtualBPM(newBPM) and
\* onVirtualBPMChange?.(newBPM)
AppAfterReport(app, newBPM) ==
    IF onVirtualBPMChange THEN newBPM ELSE AppAfterSetVirtualBPM(app, newBPM)

\* a timer set by setInterval fires: calculateBPM
AnimTick ==
    /\ animPc = "mounted"
    /\ activeTimers > 0
    /\ IF qrsCountRef > 0
       THEN LET newBPM == IF qrsCountRef * 2 < VirtualBPMCap
                          THEN qrsCountRef * 2 ELSE VirtualBPMCap
            IN  /\ virtualBPM' = newBPM
                /\ appVirtualBPM' = AppAfterReport(appVirtualBPM, newBPM)
       ELSE UNCHANGED <<virtualBPM, appVirtualBPM>>
    /\ qrsCountRef' = 0
    /\ lastWasTick' = TRUE
    /\ UNCHANGED <<animPc, pqrstIntervals, timeElapsed, isPlaying, mixerSet,
                   currentPhaseRef, lastQrsTimeSet, currentPhase, bpmTimeoutRef,
                   activeTimers>>
    /\ UNCHANGED <<estVars, genVars, loadVars, pauseVars, appVars, modelVars, vizVars, revVars>>

\* the effect on [isPlaying, speedMultiplier]: counters are reset when pausing
PauseEffect(playing) ==
    IF mixerSet /\ ~ playing
    THEN /\ qrsCountRef' = 0
         /\ virtualBPM' = 0
         /\ appVirtualBPM' = AppAfterSetVirtualBPM(appVirtualBPM, 0)
    ELSE UNCHANGED <<qrsCountRef, virtualBPM, appVirtualBPM>>

\* isPlaying changes: the timer effect is cleaned up and runs again, and the
\* play/pause effect runs
AnimTogglePlaying ==
    /\ animPc = "mounted"
    /\ isPlaying' = ~ isPlaying
    /\ bpmTimeoutRef' = TimerEffect(~ isPlaying, TimerCleanup(Timer)).ref
    /\ activeTimers' = TimerEffect(~ isPlaying, TimerCleanup(Timer)).active
    /\ PauseEffect(~ isPlaying)
    /\ lastWasTick' = FALSE
    /\ UNCHANGED <<animPc, pqrstIntervals, timeElapsed, mixerSet, currentPhaseRef,
                   lastQrsTimeSet, currentPhase>>
    /\ UNCHANGED <<estVars, genVars, loadVars, pauseVars, appVars, modelVars, vizVars, revVars>>

\* speedMultiplier changes: the play/pause effect runs again (the multiplier
\* itself only reaches the actions of the mixer)
AnimSpeedChange ==
    /\ animPc = "mounted"
    /\ PauseEffect(isPlaying)
    /\ lastWasTick' = FALSE
    /\ UNCHANGED <<animPc, pqrstIntervals, timeElapsed, isPlaying, mixerSet,
                   currentPhaseRef, lastQrsTimeSet, currentPhase,
                   bpmTimeoutRef, activeTimers>>
    /\ UNCHANGED <<estVars, genVars, loadVars, pauseVars, appVars, modelVars, vizVars, revVars>>

-----------------------------------------------------------------------------
(* App: the reference-line effect, and AnimationManager as App renders it *)

\* ECG_CONFIG.REFERENCE_LINE_POSITION of App's effect
REFERENCE_LINE_POSITION == 50

\* (totalPoints - referencePosition) / ECG_CONFIG.SAMPLING_RATE, in milliseconds
ReferenceDelay == ((POINTS - REFERENCE_LINE_POSITION) * MsPerSecond) \div VizSamplingRate

\* newPhase of App's effect: the phase of the first interval that contains
\* timeAtReference, or 'ST'
AppPhase(ivs, t) == NewPhase(ivs, 1, t - ReferenceDelay)

\* the arrays /pqrst_intervals.json gives App
AppIntervalArrays == AnimIntervalArrays \ {<<>>}

\* the values of App's timeElapsed (ms): the reference line is before the
\* first interval, then in each interval in turn
AppTimes == {500, 1000, 2550, 2650, 2750, 3000}

\* App renders again: AnimationManager's phase effect runs (its default
\* pqrstIntervals = [] is a new array at every render), then App's
\* reference-line effect for the intervals ivs and the time t
AppEffects(ivs, t) ==
    /\ PhaseEffectRefs(timeElapsed)
    /\ IF Len(ivs) # 0
       THEN currentPhase' = AppPhase(ivs, t)
       ELSE IF CallsSetCurrentPhase(timeElapsed)
            THEN currentPhase' = NewPhase(pqrstIntervals, 1, timeElapsed)
            ELSE UNCHANGED currentPhase
    /\ IF PhaseEffectThrows(NewPhase(pqrstIntervals, 1, timeElapsed))
       THEN Crash
       ELSE UNCHANGED <<animPc, bpmTimeoutRef, activeTimers>>

\* HeartModel's onTimeUpdate(t => t + delta) gives App a later timeElapsed
AppTimeUpdate ==
    /\ animPc = "mounted"
    /\ \E t \in AppTimes :
          /\ t > appTime
          /\ appTime' = t
          /\ AppEffects(appIntervals, t)
    /\ lastWasTick' = FALSE
    /\ UNCHANGED <<pqrstIntervals, timeElapsed, isPlaying, mixerSet, virtualBPM,
                   appVirtualBPM, onVirtualBPMChange, appIntervals>>
    /\ UNCHANGED <<estVars, genVars, loadVars, pauseVars, modelVars, vizVars, revVars>>

\* App's loadIntervals: setPqrstIntervals(intervals)
AppIntervalsLoaded ==
    /\ animPc = "mounted"
    /\ appIntervals = <<>>
    /\ \E ivs \in AppIntervalArrays :
          /\ appIntervals' = ivs
          /\ AppEffects(ivs, appTime)
    /\ lastWasTick' = FALSE
    /\ UNCHANGED <<pqrstIntervals, timeElapsed, isPlaying, mixerSet, virtualBPM,
                   appVirtualBPM, onVirtualBPMChange, appTime>>
    /\ UNCHANGED <<estVars, genVars, loadVars, pauseVars, modelVars, vizVars, revVars>>

-----------------------------------------------------------------------------
(* ReverseECG *)

\* POINTS_ON_SCREEN
POINTS_ON_SCREEN == 800
\* SAMPLE_RATE
SAMPLE_RATE == 300
\* simTime counts units of 1/3000 s: a millisecond is 3 units, a sample is 10
SimUnitsPerSecond == 3000
\* amplitude 0.03 of the baseline and width 0.03 of the noise
DriftAmp == 300
\* the factor 60 of the exponent of a spike
SpikeSharpness == 60

\* Math.exp(-p/q) for 0 <= p/q <= 16, as the eighth power of Math.exp(-p/(8q))
ExpNegWide(p, q) ==
    LET e1 == ExpNeg(p, 8 * q)
        e2 == (e1 * e1) \div AmpScale
        e4 == (e2 * e2) \div AmpScale
    IN  (e4 * e4) \div AmpScale

\* generateSpike(length, height): element k (1-based) is
\* height * Math.exp(-60 * (t - 0.5)^2) with t = (k - 1) / (length - 1)
generateSpike(len, height) ==
    [k \in 1..len |->
        MulAmp(height, ExpNegWide(SpikeSharpness * (2 * (k - 1) - (len - 1))
                                                 * (2 * (k - 1) - (len - 1)),
                                  4 * (len - 1) * (len - 1)))]

\* generateDip(length, depth)
generateDip(len, depth) ==
    [k \in 1..len |->
        MulAmp(-depth, ExpNegWide(SpikeSharpness * (2 * (k - 1) - (len - 1))
                                                 * (2 * (k - 1) - (len - 1)),
                                  4 * (len - 1) * (len - 1)))]

pWave == generateSpike(30, 3000)
qDip == generateDip(10, 2000)
rSpike == generateSpike(20, 10000)
sDip == generateDip(10, 3000)
tWave == generateSpike(40, 5000)

\* blank(len): Array(Math.max(0, len)).fill(0)
blank(len) == [k \in 1..(IF len > 0 THEN len ELSE 0) |-> 0]

\* Math.round(SAMPLE_RATE * c / 100)
RoundRate(c) == (2 * SAMPLE_RATE * c + 100) \div 200

\* mutant: the R spike is queued before the Q dip
QRSComplex_RBeforeQ ==
    blank(RoundRate(20)) \o pWave \o blank(RoundRate(1) - Len(pWave))
      \o rSpike \o qDip \o sDip \o blank(RoundRate(1)) \o tWave

\* what injectQRSComplex enqueues, in order
QRSComplex ==
    blank(RoundRate(20)) \o pWave \o blank(RoundRate(1) - Len(pWave))
      \o qDip \o rSpike \o sDip \o blank(RoundRate(1)) \o tWave

\* Math.random() * 0.03 - 0.015
RevNoise(u) == (u * DriftAmp) \div RandomScale - DriftAmp \div 2

\* 0.03 * Math.sin(2 * Math.PI * time / 1000 * 0.5)
Baseline(time) == MulAmp(DriftAmp, SinPi(time, 1000))

\* mutant: slice(0, POINTS_ON_SCREEN)
KeepLast_First(buf) == SubSeq(buf, 1, POINTS_ON_SCREEN)

\* slice(-POINTS_ON_SCREEN)
KeepLast(buf) ==
    IF Len(buf) <= POINTS_ON_SCREEN THEN buf
    ELSE SubSeq(buf, Len(buf) - POINTS_ON_SCREEN + 1, Len(buf))

\* the gaps (ms) between the time lastUpdateTimeRef holds and an animation frame
FrameGaps == {0, 10, 600, 3000}

\* the values of the prop currentPhase
RevPhases == {"QRS", "ST"}

\* the values of the prop speedMultiplier
SpeedMultipliers == {1, 2}

\* the Math.random source of the frames
RevRandomSources == {"alternating"}

\* the component is committed: the animation effect and the phase effect run
RevMount ==
    /\ revPc = "start"
    /\ revPc' = "mounted"
    /\ framePending' = isPlaying
    /\ IF currentPhase = "QRS"
       THEN /\ waveQueue' = waveQueue \o QRSComplex
            /\ enqueued' = enqueued \o QRSComplex
       ELSE UNCHANGED <<waveQueue, enqueued>>
    /\ UNCHANGED <<speedMultiplier, now, signalBuffer, simTime, lastUpdateTime,
                   revEcgData, frames, produced, consumed, zeroFills, qrsChanges>>
    /\ UNCHANGED <<isPlaying, currentPhase>>
    /\ UNCHANGED <<animPc, pqrstIntervals, timeElapsed, mixerSet, currentPhaseRef,
                   qrsCountRef, lastQrsTimeSet, virtualBPM, appVirtualBPM,
                   bpmTimeoutRef, activeTimers, lastWasTick>>
    /\ UNCHANGED <<estVars, genVars, loadVars, pauseVars, appVars, modelVars, vizVars>>

\* the requested animation frame runs at time now + gap: update(time)
RevFrame ==
    /\ revPc = "mounted"
    /\ framePending
    /\ frames < MaxFrames
    /\ \E gap \in FrameGaps :
         LET time == now + gap
             sim == simTime
                      + (time - lastUpdateTime) * (SimUnitsPerSecond \div 1000) * speedMultiplier
             samplesToAdd == (sim * SAMPLE_RATE) \div SimUnitsPerSecond
             taken == IF samplesToAdd < Len(waveQueue) THEN samplesToAdd ELSE Len(waveQueue)
             pushed == [k \in 1..samplesToAdd |->
                          (IF k <= Len(waveQueue) THEN waveQueue[k] ELSE 0)
                            + RevNoise(RandomDraw(rng, Len(produced) + k - 1))
                            + Baseline(time)]
         IN  /\ now' = time
             /\ lastUpdateTime' = time
             /\ simTime' = sim - samplesToAdd * (SimUnitsPerSecond \div SAMPLE_RATE)
             /\ waveQueue' = SubSeq(waveQueue, taken + 1, Len(waveQueue))
             /\ consumed' = consumed \o SubSeq(waveQueue, 1, taken)
             /\ zeroFills' = zeroFills + (IF samplesToAdd > taken THEN samplesToAdd - taken ELSE 0)
             /\ signalBuffer' = KeepLast(signalBuffer \o pushed)
             /\ revEcgData' = KeepLast(signalBuffer \o pushed)
             /\ produced' = produced \o pushed
    /\ frames' = frames + 1
    /\ pausedMs' = 0
    /\ UNCHANGED <<revPc, speedMultiplier, framePending, enqueued, qrsChanges>>
    /\ UNCHANGED animVars
    /\ UNCHANGED <<estVars, genVars, loadVars, appVars, modelVars, vizVars>>

\* isPlaying changes: the pending frame is cancelled, and a frame is
\* requested if the component now plays
RevTogglePlaying ==
    /\ revPc = "mounted"
    /\ isPlaying' = ~ isPlaying
    /\ framePending' = ~ isPlaying
    /\ UNCHANGED <<revPc, speedMultiplier, now, signalBuffer, waveQueue, simTime,
                   lastUpdateTime, revEcgData, frames, produced, enqueued,
                   consumed, zeroFills, qrsChanges>>
    /\ UNCHANGED <<animPc, pqrstIntervals, timeElapsed, mixerSet, currentPhaseRef,
                   qrsCountRef, lastQrsTimeSet, virtualBPM, currentPhase,
                   appVirtualBPM, bpmTimeoutRef, activeTimers, lastWasTick>>
    /\ UNCHANGED <<estVars, genVars, loadVars, pauseVars, appVars, modelVars, vizVars>>

\* currentPhase changes: the effect on [currentPhase] runs
RevPhaseChange ==
    /\ revPc = "mounted"
    /\ \E phase \in RevPhases \ {currentPhase} :
          /\ currentPhase' = phase
          /\ IF phase = "QRS"
             THEN /\ qrsChanges < MaxQrsChanges
                  /\ qrsChanges' = qrsChanges + 1
                  /\ waveQueue' = waveQueue \o QRSComplex
                  /\ enqueued' = enqueued \o QRSComplex
             ELSE UNCHANGED <<qrsChanges, waveQueue, enqueued>>
    /\ UNCHANGED <<revPc, speedMultiplier, now, signalBuffer, simTime,
                   lastUpdateTime, framePending, revEcgData, frames, produced,
                   consumed, zeroFills>>
    /\ UNCHANGED <<animPc, pqrstIntervals, timeElapsed, isPlaying, mixerSet,
                   currentPhaseRef, qrsCountRef, lastQrsTimeSet, virtualBPM,
                   appVirtualBPM, bpmTimeoutRef, activeTimers, lastWasTick>>
    /\ UNCHANGED <<estVars, genVars, loadVars, pauseVars, appVars, modelVars, vizVars>>

\* the length of a pause, in milliseconds
PausedStep == 5000

\* time passes while the component is paused: no frame is requested, so no
\* code of the component runs
RevClockAdvance ==
    /\ revPc = "mounted"
    /\ ~ isPlaying
    /\ now - lastUpdateTime < MaxPausedMs
    /\ now' = now + PausedStep
    /\ pausedMs' = pausedMs + PausedStep
    /\ UNCHANGED <<revPc, speedMultiplier, signalBuffer, waveQueue, simTime,
                   lastUpdateTime, framePending, revEcgData, frames, produced,
                   enqueued, consumed, zeroFills, qrsChanges>>
    /\ UNCHANGED animVars
    /\ UNCHANGED <<estVars, genVars, loadVars, appVars, modelVars, vizVars>>

-----------------------------------------------------------------------------
(* HeartModel: the frame computation of the phase effect *)

\* HEARTBEAT_FRAMES
HEARTBEAT_FRAMES ==
    [PQ |-> [start |-> 0, end |-> 14],
     QRS |-> [start |-> 15, end |-> 30],
     ST |-> [start |-> 31, end |-> 60]]

\* TOTAL_FRAMES
TOTAL_FRAMES == 61

\* no frame computation has run
NoTarget == [phase |-> "", frame |-> -1]

\* the labels an interval record may carry
PhaseLabels == {"P", "QRS", "PQ", "ST", "T"}

\* the interval arrays the component is given: one interval of every label,
\* and the three labels the frame tables know
HmIntervalArrays ==
    { << Rec("P", Num(0), Num(100)), Rec("PQ", Num(100), Num(100)),
         Rec("QRS", Num(200), Num(100)), Rec("ST", Num(300), Num(100)),
         Rec("T", Num(400), Num(100)) >>,
      << Rec("PQ", Num(0), Num(100)), Rec("QRS", Num(100), Num(100)),
         Rec("ST", Num(200), Num(100)) >> }

\* the values timeElapsed is updated to (ms)
HmTimes == {50, 250, 299, 450, 600}

\* the index of the first interval with
\* timeElapsed >= phase.entry && timeElapsed < phase.entry + phase.duration,
\* from element j on; 0 if the loop ends without one
RECURSIVE PhaseIndex(_, _, _)
PhaseIndex(ivs, j, t) ==
    IF j > Len(ivs) THEN 0
    ELSE IF InInterval(ivs[j], t) THEN j
         ELSE PhaseIndex(ivs, j + 1, t)

\* targetFrame for the frame range and phaseProgress = (t - entry) / duration
TargetFrame(frameRange, phase, t) ==
    LET byProgress == frameRange.start +
            ((frameRange.end - frameRange.start) * (t - phase.entry.v)) \div phase.duration.v
    IN  IF frameRange.end < byProgress THEN frameRange.end ELSE byProgress

\* the phase effect reads frameRange.end of an undefined frameRange
FrameLookupThrows(ivs, t) ==
    /\ hmMixerSet
    /\ Len(ivs) # 0
    /\ PhaseIndex(ivs, 1, t) # 0
    /\ ivs[PhaseIndex(ivs, 1, t)].phase \notin DOMAIN HEARTBEAT_FRAMES

\* the effect on [timeElapsed, pqrstIntervals] for the array ivs and the time t
HmPhaseEffect(ivs, t) ==
    IF ~ hmMixerSet \/ Len(ivs) = 0 \/ PhaseIndex(ivs, 1, t) = 0
    THEN UNCHANGED <<hmPc, lastPhaseRef, currentFrame, targetFrame>>
    ELSE LET currentPhaseData == ivs[PhaseIndex(ivs, 1, t)]
         IN  IF FrameLookupThrows(ivs, t)
             THEN /\ hmPc' = "crashed"
                  /\ UNCHANGED <<lastPhaseRef, currentFrame, targetFrame>>
             ELSE LET frame == TargetFrame(HEARTBEAT_FRAMES[currentPhaseData.phase],
                                           currentPhaseData, t)
                  IN  /\ targetFrame' = [phase |-> currentPhaseData.phase, frame |-> frame]
                      /\ lastPhaseRef' = currentPhaseData.phase
                      /\ currentFrame' = IF frame < 0 \/ frame > TOTAL_FRAMES
                                         THEN currentFrame ELSE frame
                      /\ UNCHANGED hmPc

\* the component is committed: its effects run for the first time; the phase
\* effect finds no mixer, and the loader starts
HmMount ==
    /\ hmPc = "start"
    /\ animPc # "crashed"
    /\ hmPc' = "loading"
    /\ UNCHANGED <<hmMixerSet, hmIntervals, hmTime, lastPhaseRef, currentFrame,
                   targetFrame>>
    /\ UNCHANGED <<estVars, genVars, loadVars, pauseVars, appVars, vizVars, animVars, revVars>>

\* the loader's callback: the mixer is made if the model has animations
HmModelLoaded ==
    /\ hmPc = "loading"
    /\ animPc # "crashed"
    /\ hmPc' = "loaded"
    /\ hmMixerSet' \in BOOLEAN
    /\ UNCHANGED <<hmIntervals, hmTime, lastPhaseRef, currentFrame, targetFrame>>
    /\ UNCHANGED <<estVars, genVars, loadVars, pauseVars, appVars, vizVars, animVars, revVars>>

\* pqrstIntervals changes from [] to the loaded array: the phase effect runs
HmIntervalsLoaded ==
    /\ hmPc \in {"loading", "loaded"}
    /\ animPc # "crashed"
    /\ hmIntervals = <<>>
    /\ \E ivs \in HmIntervalArrays :
          /\ hmIntervals' = ivs
          /\ HmPhaseEffect(ivs, hmTime)
    /\ UNCHANGED <<hmMixerSet, hmTime>>
    /\ UNCHANGED <<estVars, genVars, loadVars, pauseVars, appVars, vizVars, animVars, revVars>>

\* timeElapsed changes: the phase effect runs
HmTimeUpdate ==
    /\ hmPc \in {"loading", "loaded"}
    /\ animPc # "crashed"
    /\ \E t \in HmTimes \ {hmTime} :
          /\ hmTime' = t
          /\ HmPhaseEffect(hmIntervals, t)
    /\ UNCHANGED <<hmMixerSet, hmIntervals>>
    /\ UNCHANGED <<estVars, genVars, loadVars, pauseVars, appVars, vizVars, animVars, revVars>>

-----------------------------------------------------------------------------
(* The estimator called on an arbitrary interval array *)

\* loadEcgData has not been called
EcgIdle ==
    /\ realBPM = InitialRealBPM
    /\ setRealBPMCalls = <<>>
    /\ ecgPc = "idle"
    /\ ecgFetch = "pending"
    /\ ecgJson = "pending"
    /\ ecgPayload = NoPayload
    /\ ecgCaught = FALSE
    /\ ecgPromise = PromisePending

\* loadHeartData has not been called
HeartIdle ==
    /\ heartPc = "idle"
    /\ heartFetch = "pending"
    /\ heartJson = "pending"
    /\ heartPayload = NoPayload
    /\ heartPromise = PromisePending

\* the estimator has not been called
EstIdle ==
    /\ intervals = <<>>
    /\ estPc = "idle"
    /\ bpmResult = Pending

\* ECGVisualization has not unmounted
LifeIdle ==
    /\ vizUnmounted = FALSE
    /\ workerTerminated = FALSE
    /\ setAfterUnmount = FALSE

\* ECGVisualization's chart has not been created
ChartIdle ==
    /\ chartData = <<>>
    /\ chartTime = 0
    /\ chartPlaying = TRUE
    /\ chartPending = FALSE
    /\ chartAge = -1

\* ECGVisualization is not mounted
VizIdle ==
    /\ vizPc = "idle"
    /\ vizFetch = "pending"
    /\ vizJson = "pending"
    /\ vizCaught = FALSE
    /\ workerPc = "none"
    /\ workerRequest = NoRequest
    /\ workerTime = 0
    /\ workerData = <<>>
    /\ workerPosts = 0
    /\ inbox = <<>>
    /\ ecgData = <<>>
    /\ setEcgDataCalls = 0
    /\ LifeIdle
    /\ ChartIdle

\* AnimationManager is not rendered
AnimRefsIdle ==
    /\ animPc = "idle"
    /\ pqrstIntervals = <<>>
    /\ timeElapsed = 0
    /\ mixerSet = FALSE
    /\ currentPhaseRef = "ST"
    /\ qrsCountRef = 0
    /\ lastQrsTimeSet = FALSE
    /\ virtualBPM = 0
    /\ appVirtualBPM = InitialVirtualBPM
    /\ bpmTimeoutRef = "null"
    /\ activeTimers = 0
    /\ lastWasTick = FALSE
    /\ onVirtualBPMChange = FALSE

\* AnimationManager is not rendered and App's isPlaying and currentPhase
\* have their initial values
AnimIdle ==
    /\ AnimRefsIdle
    /\ isPlaying = TRUE
    /\ currentPhase = "ST"

\* ReverseECG is not rendered
RevIdle ==
    /\ revPc = "idle"
    /\ speedMultiplier = 1
    /\ now = 0
    /\ signalBuffer = <<>>
    /\ waveQueue = <<>>
    /\ simTime = 0
    /\ lastUpdateTime = 0
    /\ framePending = FALSE
    /\ revEcgData = <<>>
    /\ frames = 0
    /\ produced = <<>>
    /\ enqueued = <<>>
    /\ consumed = <<>>
    /\ zeroFills = 0
    /\ qrsChanges = 0
    /\ pausedMs = 0

\* HeartModel is not rendered
ModelIdle ==
    /\ hmPc = "idle"
    /\ hmMixerSet = FALSE
    /\ hmIntervals = <<>>
    /\ hmTime = 0
    /\ lastPhaseRef = ""
    /\ currentFrame = 0
    /\ targetFrame = NoTarget

\* App's timeElapsed and pqrstIntervals have their initial values
AppIdle ==
    /\ appTime = 0
    /\ appIntervals = <<>>

\* no drawing or animating component is mounted
UiIdle == VizIdle /\ AnimIdle /\ RevIdle /\ ModelIdle /\ AppIdle

\* the generator has not been called
GenIdle ==
    /\ length = 0
    /\ samplingRate = 1
    /\ heartRate = 1
    /\ rng = "mid"
    /\ i = 0
    /\ posInBeat = [num |-> 0, den |-> 1]
    /\ data = <<>>
    /\ genPc = "idle"
    /\ firstData = <<>>
    /\ calls = 0

InitBPM ==
    /\ intervals \in IntervalArrays
    /\ estPc = "call"
    /\ bpmResult = Pending
    /\ GenIdle
    /\ EcgIdle
    /\ HeartIdle
    /\ UiIdle

CallCalculateStableBPM ==
    /\ estPc = "call"
    /\ bpmResult' = calculateStableBPM(intervals)
    /\ estPc' = "done"
    /\ UNCHANGED intervals
    /\ UNCHANGED genVars
    /\ UNCHANGED loadVars
    /\ UNCHANGED uiVars

NextBPM == CallCalculateStableBPM

SpecBPM == InitBPM /\ [][NextBPM]_vars

-----------------------------------------------------------------------------
(* The generator called on arbitrary arguments, one loop iteration per step *)

InitGen ==
    /\ length \in SampleCounts
    /\ samplingRate \in SamplingRates
    /\ heartRate \in HeartRates
    /\ rng \in RandomSources
    /\ i = 0
    /\ posInBeat = [num |-> 0, den |-> 1]
    /\ data = <<>>
    /\ genPc = "loop"
    /\ firstData = <<>>
    /\ calls = 1
    /\ EstIdle
    /\ EcgIdle
    /\ HeartIdle
    /\ UiIdle

\* one iteration of the for loop
GenIterate ==
    /\ genPc = "loop"
    /\ LoopContinues(i, length)
    /\ posInBeat' = PosInBeat(i, samplingRate, heartRate)
    /\ data' = Append(data, ECGSample(i, samplingRate, heartRate, rng))
    /\ i' = i + 1
    /\ UNCHANGED <<length, samplingRate, heartRate, rng, genPc, firstData, calls>>
    /\ UNCHANGED estVars
    /\ UNCHANGED loadVars
    /\ UNCHANGED uiVars

\* the loop test fails: return data
GenReturn ==
    /\ genPc = "loop"
    /\ ~ LoopContinues(i, length)
    /\ genPc' = "done"
    /\ UNCHANGED <<length, samplingRate, heartRate, rng, i, posInBeat, data,
                   firstData, calls>>
    /\ UNCHANGED estVars
    /\ UNCHANGED loadVars
    /\ UNCHANGED uiVars

\* the caller keeps the returned array and calls the function a second time,
\* with the same samplingRate and heartRate and any length
GenCallAgain ==
    /\ genPc = "done"
    /\ calls = 1
    /\ firstData' = data
    /\ calls' = 2
    /\ length' \in SampleCounts
    /\ data' = InitialData
    /\ i' = 0
    /\ genPc' = "loop"
    /\ UNCHANGED <<samplingRate, heartRate, rng, posInBeat>>
    /\ UNCHANGED estVars
    /\ UNCHANGED loadVars
    /\ UNCHANGED uiVars

NextGen == GenIterate \/ GenReturn \/ GenCallAgain

SpecGen == InitGen /\ [][NextGen]_vars

-----------------------------------------------------------------------------
(* loadEcgData(setRealBPM) called by App's initializeApp, one step per await *)

InitLoad ==
    /\ EstIdle
    /\ length = 0
    /\ samplingRate = 1
    /\ heartRate = 1
    /\ rng \in LoadRandomSources
    /\ i = 0
    /\ posInBeat = [num |-> 0, den |-> 1]
    /\ data = <<>>
    /\ genPc = "idle"
    /\ firstData = <<>>
    /\ calls = 0
    /\ realBPM = InitialRealBPM
    /\ setRealBPMCalls = <<>>
    /\ ecgPc = "start"
    /\ ecgFetch = "pending"
    /\ ecgJson = "pending"
    /\ ecgPayload = NoPayload
    /\ ecgCaught = FALSE
    /\ ecgPromise = PromisePending
    /\ HeartIdle
    /\ UiIdle

NextLoad ==
    \/ LoadEcgDataCall
    \/ EcgFetchSettles
    \/ EcgJsonRejects
    \/ EcgJsonResolves

SpecLoad == InitLoad /\ [][NextLoad]_vars

-----------------------------------------------------------------------------
(* loadHeartData() called by App's initializeApp, one step per await *)

InitHeart ==
    /\ EstIdle
    /\ GenIdle
    /\ EcgIdle
    /\ heartPc = "start"
    /\ heartFetch = "pending"
    /\ heartJson = "pending"
    /\ heartPayload = NoPayload
    /\ heartPromise = PromisePending
    /\ UiIdle

NextHeart ==
    \/ LoadHeartDataCall
    \/ HeartFetchSettles
    \/ HeartJsonRejects
    \/ HeartJsonResolves

SpecHeart == InitHeart /\ [][NextHeart]_vars

-----------------------------------------------------------------------------
(* ECGVisualization mounted: loadIntervals, the worker, and the reply *)

InitViz ==
    /\ EstIdle
    /\ GenIdle
    /\ EcgIdle
    /\ HeartIdle
    /\ vizPc = "start"
    /\ vizFetch = "pending"
    /\ vizJson = "pending"
    /\ vizCaught = FALSE
    /\ workerPc = "none"
    /\ workerRequest = NoRequest
    /\ workerTime = 0
    /\ workerData = <<>>
    /\ workerPosts = 0
    /\ inbox = <<>>
    /\ ecgData = <<>>
    /\ setEcgDataCalls = 0
    /\ LifeIdle
    /\ ChartIdle
    /\ AnimIdle
    /\ RevIdle
    /\ ModelIdle
    /\ AppIdle

NextViz ==
    \/ VizLoadIntervalsCall
    \/ VizFetchSettles
    \/ VizJsonRejects
    \/ VizJsonResolves
    \/ WorkerOnMessage
    \/ WorkerIterate
    \/ WorkerPost
    \/ VizOnMessage

SpecViz == InitViz /\ [][NextViz]_vars

\* the worker's event loop and the main thread's event loop keep running
\* their handlers
FairViz ==
    /\ WF_vars(WorkerOnMessage)
    /\ WF_vars(WorkerIterate)
    /\ WF_vars(WorkerPost)
    /\ WF_vars(VizOnMessage)

SpecVizLive == SpecViz /\ FairViz

\* the same, with the component unmounting at any moment after its effects ran
NextVizUnmount == NextViz \/ VizUnmount

SpecVizUnmount == InitViz /\ [][NextVizUnmount]_vars

-----------------------------------------------------------------------------
(* ECGVisualization with its chart created and the worker's reply posted *)

\* the interval arrays the worker was sent: 1020 samples, 3 samples, 1 sample
ChartIntervalArrays ==
    { << Rec("PQ", Num(0), Num(1000)), Rec("T", Num(1000), Num(1000)),
         Rec("PQ", Num(2000), Num(1000)), Rec("PQ", Num(3000), Num(400)) >>,
      << Rec("QRS", Num(0), Num(10)) >>,
      << Rec("QRS", Num(0), Num(3)) >> }

\* the array the worker's loop builds for a numeric interval array
WorkerOutput(ivs, rate) ==
    LET n == CHOOSE m \in 0..(2 * MaxSamples * MaxLen) :
                 /\ ~ TimeBelow(m, rate, TotalDuration(ivs))
                 /\ \A k \in 0..(m - 1) : TimeBelow(k, rate, TotalDuration(ivs))
    IN  [k \in 1..n |-> [time |-> SampleTime(k - 1, rate),
                         value |-> GenerateECGPoint(ivs, 1, k - 1, rate)]]

InitChart ==
    /\ EstIdle
    /\ GenIdle
    /\ EcgIdle
    /\ HeartIdle
    /\ \E ivs \in ChartIntervalArrays :
          /\ workerRequest = Request(JsonArray(ivs), VizSamplingRate)
          /\ workerData = WorkerOutput(ivs, VizSamplingRate)
          /\ workerTime = Len(workerData)
          /\ inbox = <<workerData>>
    /\ vizPc = "done"
    /\ vizFetch = "resolved"
    /\ vizJson = "parsed"
    /\ vizCaught = FALSE
    /\ workerPc = "finished"
    /\ workerPosts = 1
    /\ ecgData = <<>>
    /\ setEcgDataCalls = 0
    /\ LifeIdle
    /\ chartData = InitialDataset
    /\ chartTime = 0
    /\ chartPlaying = TRUE
    /\ chartPending = FALSE
    /\ chartAge = -1
    /\ AnimIdle
    /\ RevIdle
    /\ ModelIdle
    /\ AppIdle

NextChart ==
    \/ VizOnMessage
    \/ ChartFrame
    \/ ChartTimeUpdate
    \/ ChartTogglePlaying

SpecChart == InitChart /\ [][NextChart]_vars

-----------------------------------------------------------------------------
(* AnimationManager rendered with a callback and some interval array *)

InitAnim ==
    /\ EstIdle
    /\ GenIdle
    /\ EcgIdle
    /\ HeartIdle
    /\ VizIdle
    /\ animPc = "start"
    /\ pqrstIntervals \in AnimIntervalArrays
    /\ timeElapsed = 0
    /\ isPlaying \in BOOLEAN
    /\ mixerSet = FALSE
    /\ currentPhaseRef = "ST"
    /\ qrsCountRef = 0
    /\ lastQrsTimeSet = FALSE
    /\ virtualBPM = 0
    /\ currentPhase = "ST"
    /\ appVirtualBPM = InitialVirtualBPM
    /\ bpmTimeoutRef = "null"
    /\ activeTimers = 0
    /\ lastWasTick = FALSE
    /\ onVirtualBPMChange = TRUE
    /\ RevIdle
    /\ ModelIdle
    /\ AppIdle

NextAnim ==
    \/ AnimMount
    \/ AnimInitialize
    \/ AnimTimeUpdate
    \/ AnimTick
    \/ AnimTogglePlaying
    \/ AnimSpeedChange

SpecAnim == InitAnim /\ [][NextAnim]_vars

-----------------------------------------------------------------------------
(* HeartModel and AnimationManager rendered, each with an interval array and *)
(* a timeElapsed; an error thrown by an effect of one unmounts both          *)

InitFrames ==
    /\ EstIdle
    /\ GenIdle
    /\ EcgIdle
    /\ HeartIdle
    /\ VizIdle
    /\ animPc = "start"
    /\ pqrstIntervals \in AnimIntervalArrays
    /\ timeElapsed = 0
    /\ isPlaying = TRUE
    /\ mixerSet = FALSE
    /\ currentPhaseRef = "ST"
    /\ qrsCountRef = 0
    /\ lastQrsTimeSet = FALSE
    /\ virtualBPM = 0
    /\ currentPhase = "ST"
    /\ appVirtualBPM = InitialVirtualBPM
    /\ bpmTimeoutRef = "null"
    /\ activeTimers = 0
    /\ lastWasTick = FALSE
    /\ onVirtualBPMChange = TRUE
    /\ AppIdle
    /\ RevIdle
    /\ hmPc = "start"
    /\ hmMixerSet = FALSE
    /\ hmIntervals = <<>>
    /\ hmTime = 0
    /\ lastPhaseRef = ""
    /\ currentFrame = 0
    /\ targetFrame = NoTarget

NextFrames ==
    \/ HmMount
    \/ HmModelLoaded
    \/ HmIntervalsLoaded
    \/ HmTimeUpdate
    \/ AnimMount
    \/ AnimInitialize
    \/ AnimTimeUpdate

SpecFrames == InitFrames /\ [][NextFrames]_vars

-----------------------------------------------------------------------------
(* App: AnimationManager rendered with setCurrentPhase, setVirtualBPM,      *)
(* isPlaying and speedMultiplier only                                        *)

InitApp ==
    /\ EstIdle
    /\ GenIdle
    /\ EcgIdle
    /\ HeartIdle
    /\ VizIdle
    /\ animPc = "start"
    /\ pqrstIntervals = <<>>
    /\ timeElapsed = NoTime
    /\ isPlaying = TRUE
    /\ mixerSet = FALSE
    /\ currentPhaseRef = "ST"
    /\ qrsCountRef = 0
    /\ lastQrsTimeSet = FALSE
    /\ virtualBPM = 0
    /\ currentPhase = "ST"
    /\ appVirtualBPM = InitialVirtualBPM
    /\ bpmTimeoutRef = "null"
    /\ activeTimers = 0
    /\ lastWasTick = FALSE
    /\ onVirtualBPMChange = FALSE
    /\ AppIdle
    /\ RevIdle
    /\ ModelIdle

NextApp ==
    \/ AnimMount
    \/ AnimInitialize
    \/ AnimTick
    \/ AnimTogglePlaying
    \/ AnimSpeedChange
    \/ AppTimeUpdate
    \/ AppIntervalsLoaded

SpecApp == InitApp /\ [][NextApp]_vars

-----------------------------------------------------------------------------
(* ReverseECG rendered: animation frames, play/pause and phase changes *)

InitRev ==
    /\ EstIdle
    /\ length = 0
    /\ samplingRate = 1
    /\ heartRate = 1
    /\ rng \in RevRandomSources
    /\ i = 0
    /\ posInBeat = [num |-> 0, den |-> 1]
    /\ data = <<>>
    /\ genPc = "idle"
    /\ firstData = <<>>
    /\ calls = 0
    /\ EcgIdle
    /\ HeartIdle
    /\ VizIdle
    /\ AnimRefsIdle
    /\ isPlaying \in BOOLEAN
    /\ currentPhase = "ST"
    /\ revPc = "start"
    /\ speedMultiplier \in SpeedMultipliers
    /\ now = 0
    /\ signalBuffer = blank(POINTS_ON_SCREEN)
    /\ waveQueue = <<>>
    /\ simTime = 0
    /\ lastUpdateTime = 0
    /\ framePending = FALSE
    /\ revEcgData = blank(POINTS_ON_SCREEN)
    /\ frames = 0
    /\ produced = blank(POINTS_ON_SCREEN)
    /\ enqueued = <<>>
    /\ consumed = <<>>
    /\ zeroFills = 0
    /\ qrsChanges = 0
    /\ pausedMs = 0
    /\ ModelIdle
    /\ AppIdle

NextRev ==
    \/ RevMount
    \/ RevFrame
    \/ RevTogglePlaying
    \/ RevPhaseChange

SpecRev == InitRev /\ [][NextRev]_vars

\* the same, with time passing while the component is paused
NextRevPause == NextRev \/ RevClockAdvance

SpecRevPause == InitRev /\ [][NextRevPause]_vars

-----------------------------------------------------------------------------
(* The estimator's contract, stated on the input array itself *)

\* indices of the entries with phase "QRS" and numeric entry and duration
QualifyingIdx(ivs) ==
    { k \in 1..Len(ivs) : /\ ivs[k].phase = "QRS"
                          /\ ivs[k].entry.t = "number"
                          /\ ivs[k].duration.t = "number" }

\* pairs of consecutive qualifying entries
ConsecutivePairs(ivs) ==
    { p \in QualifyingIdx(ivs) \X QualifyingIdx(ivs) :
        /\ p[1] < p[2]
        /\ ~ \E k \in QualifyingIdx(ivs) : p[1] < k /\ k < p[2] }

\* the RR interval of a pair, in milliseconds
RROf(ivs, p) == ivs[p[2]].entry.v - ivs[p[1]].entry.v

\* the pairs whose RR interval lies strictly inside (0.3 s, 2.0 s)
SurvivingPairs(ivs) ==
    { p \in ConsecutivePairs(ivs) : 300 < RROf(ivs, p) /\ RROf(ivs, p) < 2000 }

RECURSIVE SumRR(_, _)
SumRR(ivs, ps) ==
    IF ps = {} THEN 0
    ELSE LET p == CHOOSE q \in ps : TRUE
         IN  RROf(ivs, p) + SumRR(ivs, ps \ {p})

\* b is 60 / (T/c) rounded to the nearest integer, for T ms over c intervals
\* (b - 1/2 <= 60000c/T < b + 1/2)
IsRounded(b, T, c) ==
    /\ (2 * b - 1) * T <= 120000 * c
    /\ 120000 * c < (2 * b + 1) * T

\* the precondition of C1: two qualifying QRS events and a plausible RR interval
HasPlausibleRR(ivs) ==
    /\ Cardinality(QualifyingIdx(ivs)) >= 2
    /\ SurvivingPairs(ivs) # {}

\* QRS events at 0.0, 0.8, 1.6, 2.4 s
EvenlySpaced ==
    [k \in 1..4 |-> [phase |-> "QRS", entry |-> [t |-> "number", v |-> 800 * (k - 1)],
                     duration |-> [t |-> "number", v |-> 100]]]

\* C1 (as stated): with at least 2 qualifying QRS events and at least one RR
\* interval strictly inside (0.3, 2.0), calculateStableBPM returns an integer
\* in [40, 180] and does not throw.
C1_AlwaysReturns ==
    (estPc = "done" /\ HasPlausibleRR(intervals))
        => (bpmResult.kind = "return" /\ bpmResult.bpm \in 40..180)

\* C1 (amended): with at least 2 qualifying QRS events and at least one RR
\* interval strictly inside (0.3, 2.0), calculateStableBPM either returns an
\* integer in [40, 180] or fails with the out-of-range error, the computed BPM
\* then being in [30, 39] or [181, 200]; it fails with no other error.
C1_ReturnsOrOutOfRange ==
    (estPc = "done" /\ HasPlausibleRR(intervals))
        => \/ bpmResult.kind = "return" /\ bpmResult.bpm \in 40..180
           \/ /\ bpmResult.kind = "throw"
              /\ bpmResult.error = ErrOutOfRange
              /\ bpmResult.bpm \in (30..39) \cup (181..200)

\* witness of C1: a plausible RR interval whose BPM is out of range, so the call throws
C1_Witness ==
    /\ estPc = "done"
    /\ HasPlausibleRR(intervals)
    /\ bpmResult.kind = "throw"
    /\ bpmResult.bpm < 40

\* C2: a returned value is round(60 / mean of the surviving RR intervals), the
\* surviving RR intervals being exactly the consecutive QRS entry differences
\* strictly between 0.3 and 2.0; QRS events evenly spaced by 0.8 s yield 75.
C2_RoundedMean ==
    (estPc = "done")
        => /\ bpmResult.kind = "return"
                => IsRounded(bpmResult.bpm,
                             SumRR(intervals, SurvivingPairs(intervals)),
                             Cardinality(SurvivingPairs(intervals)))
           /\ intervals = EvenlySpaced => bpmResult = Return(75)

\* witness of C2: a value is returned although an RR interval was discarded
C2_Witness ==
    /\ estPc = "done"
    /\ bpmResult.kind = "return"
    /\ SurvivingPairs(intervals) # ConsecutivePairs(intervals)
    /\ Cardinality(SurvivingPairs(intervals)) >= 2

\* C3: calculateStableBPM fails with the insufficient-data error whenever fewer
\* than 2 entries have phase "QRS" with numeric entry and duration, whatever
\* other entries the input holds; it returns no value then.
C3_InsufficientData ==
    (estPc = "done" /\ Cardinality(QualifyingIdx(intervals)) < 2)
        => /\ bpmResult.kind = "throw"
           /\ bpmResult.error = ErrInsufficient

\* witness of C3: one qualifying QRS event among entries of another phase and
\* malformed QRS entries
C3_Witness ==
    /\ estPc = "done"
    /\ Len(intervals) = 4
    /\ Cardinality(QualifyingIdx(intervals)) = 1
    /\ \E k \in 1..Len(intervals) :
          intervals[k].phase = "QRS" /\ intervals[k].entry.t # "number"
    /\ \E k \in 1..Len(intervals) :
          intervals[k].phase = "QRS" /\ intervals[k].duration.t # "number"
    /\ \E k \in 1..Len(intervals) : intervals[k].phase # "QRS"
    /\ bpmResult.error = ErrInsufficient

\* C4: with at least 2 qualifying QRS events, calculateStableBPM fails with the
\* no-valid-intervals error if and only if every consecutive RR interval lies
\* outside the open range (0.3, 2.0); RR intervals equal to 0.3 or 2.0, zero or
\* negative count as discarded.
C4_NoValidIntervals ==
    (estPc = "done" /\ Cardinality(QualifyingIdx(intervals)) >= 2)
        => ((bpmResult.kind = "throw" /\ bpmResult.error = ErrNoValidRR)
                <=> SurvivingPairs(intervals) = {})

\* witness of C4: the error is raised for RR intervals of exactly 0.3 s and 2.0 s
C4_Witness ==
    /\ estPc = "done"
    /\ bpmResult.error = ErrNoValidRR
    /\ \E p \in ConsecutivePairs(intervals) : RROf(intervals, p) = 300
    /\ \E p \in ConsecutivePairs(intervals) : RROf(intervals, p) = 2000

\* the outcome C5 asks for when T ms over c surviving intervals round to b
OutcomeForRounded(T, c) ==
    \A b \in 0..250 :
        IsRounded(b, T, c)
            => IF b < 40 \/ b > 180
               THEN bpmResult.kind = "throw" /\ bpmResult.error = ErrOutOfRange
               ELSE bpmResult.kind = "return" /\ bpmResult.bpm = b

\* C5: calculateStableBPM never returns a value below 40 or above 180: when the
\* rounded BPM of the surviving RR intervals is outside [40, 180] the call
\* fails with the out-of-range error; 40 and 180 themselves are returned.
C5_OutOfRange ==
    (estPc = "done")
        => /\ bpmResult.kind = "return" => bpmResult.bpm \in 40..180
           /\ HasPlausibleRR(intervals)
                => OutcomeForRounded(SumRR(intervals, SurvivingPairs(intervals)),
                                     Cardinality(SurvivingPairs(intervals)))

\* witness of C5: a rounded BPM of 181 is refused
C5_Witness ==
    /\ estPc = "done"
    /\ bpmResult.kind = "throw"
    /\ bpmResult.error = ErrOutOfRange
    /\ bpmResult.bpm = 181

\* the array without its k-th entry
WithoutEntry(ivs, k) == [m \in 1..(Len(ivs) - 1) |-> IF m < k THEN ivs[m] ELSE ivs[m + 1]]

\* the entries with phase "QRS" and numeric entry and duration, in order
RECURSIVE QualifyingSubsequence(_)
QualifyingSubsequence(ivs) ==
    IF ivs = <<>> THEN <<>>
    ELSE IF 1 \in QualifyingIdx(ivs)
         THEN <<ivs[1]>> \o QualifyingSubsequence(Tail(ivs))
         ELSE QualifyingSubsequence(Tail(ivs))

\* the outcome is the outcome for the qualifying entries alone, and taking
\* out any one of the other entries leaves it as it is
SameWithoutTheOthers ==
    estPc = "done" =>
        /\ bpmResult = calculateStableBPM(QualifyingSubsequence(intervals))
        /\ \A k \in (1..Len(intervals)) \ QualifyingIdx(intervals) :
              bpmResult = calculateStableBPM(WithoutEntry(intervals, k))

\* C17: the estimator's outcome depends only on the subsequence of entries
\* with phase "QRS" and numeric entry and duration: inserting, removing or
\* reordering the other entries leaves the returned BPM or the error
\* unchanged, and the call does not modify the input array.
C17_OnlyQualifyingMatter ==
    /\ [] SameWithoutTheOthers
    /\ [][intervals' = intervals]_vars

\* witness of C17: a BPM was returned for an array whose qualifying entries
\* are separated by an entry of another phase and a QRS entry without a
\* numeric duration, whose entry time would change the result if it counted
C17_Witness ==
    /\ estPc = "done"
    /\ bpmResult.kind = "return"
    /\ Len(intervals) = 4
    /\ QualifyingIdx(intervals) = {1, 4}
    /\ intervals[2].phase = "PQ"
    /\ intervals[3].phase = "QRS"
    /\ intervals[3].duration.t # "number"
    /\ intervals[3].entry.v # intervals[4].entry.v

-----------------------------------------------------------------------------
(* The generator's contract *)

\* C8: generateRealisticECG(N, R, H) returns exactly N samples, and the i-th
\* sample (0-based) has time i/R: times start at 0 and increase by 1/R.
C8_CountAndTimes ==
    /\ genPc = "done" => Len(data) = length
    /\ \A k \in 1..Len(data) :
          /\ data[k].time.den > 0
          /\ data[k].time.num * samplingRate = (k - 1) * data[k].time.den
    /\ \A k \in 2..Len(data) :
          (data[k].time.num * data[k-1].time.den
             - data[k-1].time.num * data[k].time.den) * samplingRate
            = data[k].time.den * data[k-1].time.den

\* witness of C8: a call for the largest sample count has returned
C8_Witness ==
    /\ genPc = "done"
    /\ length = MaxSamples
    /\ Len(data) = MaxSamples
    /\ heartRate = 70

\* C9: every sample value produced by generateRealisticECG, for any noise
\* draw and any position in the cycle, lies within [-1.525, 1.775].
C9_ValueRange ==
    \A k \in 1..Len(data) : -15250 <= data[k].value /\ data[k].value <= 17750

\* witness of C9: a returned array holds a sample above the R amplitude 1.5
\* and a sample below the Q amplitude -0.2
C9_Witness ==
    /\ genPc = "done"
    /\ \E k \in 1..Len(data) : data[k].value > 15000
    /\ \E k \in 1..Len(data) : data[k].value < -2000

\* posInBeat lies in [0, 0.10), [0.30, 0.40) or [0.60, 1): outside the wave windows
OutsideWaves(pos) ==
    \/ 10 * pos.num < pos.den
    \/ 10 * pos.num >= 3 * pos.den /\ 10 * pos.num < 4 * pos.den
    \/ 10 * pos.num >= 6 * pos.den

\* C10: each sample's cycle fraction (i mod samplesPerBeat)/samplesPerBeat lies
\* in [0, 1), and with the noise fixed at 0 the value is exactly 0 for every
\* sample whose fraction lies in [0, 0.10), [0.30, 0.40) or [0.60, 1).
C10_FractionAndBaseline ==
    Len(data) > 0 =>
        /\ posInBeat.den > 0
        /\ 0 <= posInBeat.num /\ posInBeat.num < posInBeat.den
        /\ \E n \in 0..i :
              posInBeat.num * 60 * samplingRate
                = ((i - 1) * heartRate - n * 60 * samplingRate) * posInBeat.den
        /\ (rng = "mid" /\ OutsideWaves(posInBeat)) => data[Len(data)].value = 0

\* witness of C10: a noise-free sample between the QRS complex and the T wave,
\* in a call whose beat is not a whole number of samples
C10_Witness ==
    /\ Len(data) > 100
    /\ rng = "mid"
    /\ heartRate = 70
    /\ 10 * posInBeat.num >= 3 * posInBeat.den
    /\ 10 * posInBeat.num < 4 * posInBeat.den
    /\ data[Len(data)].value = 0

\* the cycle fraction lies in [lo/100, hi/100)
FractionIn(pos, lo, hi) ==
    lo * pos.den <= 100 * pos.num /\ 100 * pos.num < hi * pos.den

\* C11 (as stated): with the noise fixed at 0, for cycle fractions in
\* [0.20, 0.30) the value is the Q-wave half-sine of amplitude -0.2, hence in
\* [-0.2, 0], except in [0.22, 0.28), where it is the R-wave half-sine of
\* amplitude 1.5, hence in [0, 1.5]; the value is never positive for fractions
\* in [0.20, 0.22) or [0.28, 0.30).
C11_QrsShape ==
    (Len(data) > 0 /\ rng = "mid") =>
        /\ (FractionIn(posInBeat, 20, 22) \/ FractionIn(posInBeat, 28, 30))
              => (-2000 <= data[Len(data)].value /\ data[Len(data)].value <= 0)
        /\ FractionIn(posInBeat, 22, 28)
              => (0 <= data[Len(data)].value /\ data[Len(data)].value <= 15000)

\* C12: with the noise fixed at 0, a second call with the same (N, R, H)
\* returns the same sequence as the first, and sample i of a call is the same
\* whatever N is and whatever was called before: it depends on i, R, H only.
C12_Deterministic ==
    (calls = 2 /\ rng = "mid") =>
        /\ \A k \in 1..Len(data) : k <= Len(firstData) => data[k] = firstData[k]
        /\ (genPc = "done" /\ length = Len(firstData)) => data = firstData

\* witness of C12: two calls for the largest sample count have returned equal arrays
C12_Witness ==
    /\ calls = 2
    /\ genPc = "done"
    /\ rng = "mid"
    /\ heartRate = 70
    /\ Len(firstData) = MaxSamples
    /\ data = firstData

-----------------------------------------------------------------------------
(* The loaders' contract *)

\* something failed inside loadEcgData: the response was not ok, fetch or
\* json() rejected, the payload is not an array, or the estimator threw
EcgFailure ==
    \/ ecgFetch \in {"rejected", "notOk"}
    \/ ecgJson = "rejected"
    \/ ~ ecgPayload.isArray
    \/ calculateStableBPM(ecgPayload.items).kind = "throw"

\* C6: loadEcgData never propagates a failure: for every failure inside it, it
\* calls setRealBPM with 72 and resolves to exactly 1000 samples generated at
\* heart rate 72; on success it resolves to 1000 samples generated at the
\* estimated BPM.
C6_FallbackNeverPropagates ==
    /\ ecgPromise.state # "rejected"
    /\ ecgPc = "done" =>
          /\ ecgPromise.state = "fulfilled"
          /\ ~ ecgPromise.isNull
          /\ Len(ecgPromise.value) = 1000
          /\ IF EcgFailure
             THEN /\ setRealBPMCalls = <<72>>
                  /\ realBPM = 72
                  /\ ecgPromise.value = generateRealisticECG(1000, 360, 72, rng)
             ELSE LET est == calculateStableBPM(ecgPayload.items).bpm
                  IN  /\ setRealBPMCalls = <<est>>
                      /\ realBPM = est
                      /\ ecgPromise.value = generateRealisticECG(1000, 360, est, rng)

\* witness of C6: the payload {} was parsed and the call fell back to 72
C6_Witness ==
    /\ ecgPc = "done"
    /\ ecgJson = "parsed"
    /\ ecgPayload.kind = "object"
    /\ realBPM = 72
    /\ ecgPromise.state = "fulfilled"
    /\ Len(ecgPromise.value) = 1000

\* a malformed interval resource: not an array, an empty array, or an array
\* in which some record lacks a numeric entry or duration
Malformed(p) ==
    \/ ~ p.isArray
    \/ Len(p.items) = 0
    \/ \E k \in 1..Len(p.items) :
          p.items[k].entry.t # "number" \/ p.items[k].duration.t # "number"

\* C7: every malformed interval resource is rejected with a failure by the
\* loaders: loadEcgData does not use it to produce a BPM, and loadHeartData
\* does not return it as an interval list.
C7_MalformedRejected ==
    /\ (ecgPc = "done" /\ ecgJson = "parsed" /\ Malformed(ecgPayload)) => ecgCaught
    /\ (heartPc = "done" /\ heartJson = "parsed" /\ Malformed(heartPayload))
          => heartPromise.isNull

\* loading failed inside loadHeartData: the response was not ok, fetch or
\* json() rejected, the payload is not an array, or it is the empty array
HeartFailure ==
    \/ heartFetch \in {"rejected", "notOk"}
    \/ heartJson = "rejected"
    \/ ~ heartPayload.isArray
    \/ Len(heartPayload.items) = 0

\* C16: loadHeartData never rejects: it resolves to null whenever loading
\* fails (response not ok, fetch or JSON rejection, payload not an array, or
\* empty array) and otherwise resolves to the fetched non-empty array unchanged.
C16_NullOrArray ==
    /\ heartPromise.state # "rejected"
    /\ heartPc = "done" =>
          /\ heartPromise.state = "fulfilled"
          /\ IF HeartFailure
             THEN heartPromise.isNull
             ELSE /\ ~ heartPromise.isNull
                  /\ Len(heartPromise.value) > 0
                  /\ heartPromise.value = heartPayload.items

\* witness of C16: the empty array was fetched and the call resolved to null
C16_Witness ==
    /\ heartPc = "done"
    /\ heartJson = "parsed"
    /\ heartPayload.isArray
    /\ Len(heartPayload.items) = 0
    /\ heartPromise.state = "fulfilled"
    /\ heartPromise.isNull

-----------------------------------------------------------------------------
(* The contract of the interval-driven generator and its worker *)

\* the interval array the worker was sent
SentIntervals == workerRequest.intervals.items

\* the record has a numeric entry and a numeric duration
NumericRecord(r) == r.entry.t = "number" /\ r.duration.t = "number"

\* the end (ms) of the last interval of a non-empty array of numeric records
LastEnd(ivs) == ivs[Len(ivs)].entry.v + ivs[Len(ivs)].duration.v

\* the number of sample times 0, 1/300, 2/300, ... strictly below the end of
\* the last interval
SamplesBelowEnd(ivs) ==
    IF NumericRecord(ivs[Len(ivs)])
    THEN Cardinality({ k \in 0..60 : k * 1000 < LastEnd(ivs) * 300 })
    ELSE 0

\* the intervals that contain the time of sample k: entry <= k/300 < entry + duration
Containing(ivs, k) ==
    { j \in 1..Len(ivs) :
        /\ NumericRecord(ivs[j])
        /\ ivs[j].entry.v * 300 <= k * 1000
        /\ k * 1000 < (ivs[j].entry.v + ivs[j].duration.v) * 300 }

\* the first interval in list order that contains the time of sample k
FirstContaining(ivs, k) ==
    CHOOSE j \in Containing(ivs, k) : \A m \in Containing(ivs, k) : j <= m

\* the value the claim gives sample k
ValueByFirstInterval(ivs, k) ==
    IF Containing(ivs, k) = {} THEN 0
    ELSE LET r == ivs[FirstContaining(ivs, k)]
             progress == [num |-> k * 1000 - r.entry.v * 300,
                          den |-> r.duration.v * 300]
         IN  IF r.phase = "QRS" THEN ShapeQRS(progress)
             ELSE IF r.phase = "PQ" THEN ShapePQ(progress)
             ELSE IF r.phase = "ST" THEN ShapeST(progress)
             ELSE 0

IntervalArray(p) ==
    /\ p.isArray
    /\ \A j \in 1..Len(p.items) :
          /\ NumericRecord(p.items[j])
          /\ p.items[j].entry.v >= 0
          /\ p.items[j].duration.v > 0

\* C14 (as stated): for every interval array delivered to the worker, the
\* empty array included, the worker terminates and eventually posts a sample
\* array, so that ECGVisualization eventually leaves its "Loading ECG..."
\* state (ecgData is no longer empty).
C14_EventuallyLoaded ==
    (workerPc = "queued" /\ IntervalArray(workerRequest.intervals))
        ~> (workerPosts > 0 /\ Len(ecgData) > 0)

\* C15: the value of the sample at time t is that of the first interval in
\* list order with entry <= t < entry + duration, shaped by its phase label
\* and the progress (t - entry)/duration; it is 0 when no interval contains t
\* and when that interval's label is not QRS, PQ or ST.  Samples are produced
\* for t = 0, 1/R, 2/R, ... strictly below the last interval's entry + duration.
C15_FirstIntervalDecides ==
    workerPc \in {"loop", "finished"} =>
        /\ \A k \in 1..Len(workerData) :
              /\ workerData[k].time.den > 0
              /\ workerData[k].time.num * 300 = (k - 1) * workerData[k].time.den
              /\ k <= SamplesBelowEnd(SentIntervals)
              /\ workerData[k].value = ValueByFirstInterval(SentIntervals, k - 1)
        /\ workerPc = "finished" => Len(workerData) = SamplesBelowEnd(SentIntervals)

\* witness of C15: a generation has finished in which a sample lies in two
\* intervals of different shapes and has the non-zero value of the first, a
\* sample lies in an interval of another label, and the last interval is not
\* the one that ends last
C15_Witness ==
    /\ workerPc = "finished"
    /\ Len(SentIntervals) = 2
    /\ SentIntervals[1].phase \in {"QRS", "PQ", "ST"}
    /\ SentIntervals[2].phase \in {"QRS", "PQ", "ST"}
    /\ SentIntervals[1].phase # SentIntervals[2].phase
    /\ LastEnd(SentIntervals) < SentIntervals[1].entry.v + SentIntervals[1].duration.v
    /\ \E k \in 1..Len(workerData) :
          /\ Containing(SentIntervals, k - 1) = {1, 2}
          /\ workerData[k].value # 0
          /\ workerData[k].value # PhaseValue(SentIntervals[2].phase,
                                              PhaseProgress(SentIntervals[2], k - 1, 300))

-----------------------------------------------------------------------------
(* The contract of AnimationManager's QRS counter *)

\* the virtual BPM is an even integer in [0, 200], at most one timer runs,
\* and the counter is 0 after a tick
EvenBPMOneTimer ==
    /\ virtualBPM \in 0..200
    /\ virtualBPM % 2 = 0
    /\ activeTimers <= 1
    /\ lastWasTick => qrsCountRef = 0

\* a step that raises the counter raises it by one and takes the tracked
\* phase from a phase other than QRS into QRS
CountsOncePerEntry ==
    qrsCountRef' > qrsCountRef =>
        /\ qrsCountRef' = qrsCountRef + 1
        /\ currentPhaseRef # "QRS"
        /\ currentPhaseRef' = "QRS"

\* a tick resets the counter and turns a positive counter into the virtual BPM
TickReports ==
    lastWasTick' =>
        /\ qrsCountRef' = 0
        /\ IF qrsCountRef > 0
           THEN virtualBPM' = IF 2 * qrsCountRef <= 200 THEN 2 * qrsCountRef ELSE 200
           ELSE virtualBPM' = virtualBPM

\* C18: over any sequence of time updates, ticks and play/pause toggles the
\* QRS counter is incremented at most once per transition of the tracked
\* phase from a non-QRS phase into QRS; every tick resets the counter to 0
\* and, when it was positive, sets the virtual BPM to min(2 x counter, 200);
\* the virtual BPM is always an even integer in [0, 200], and at most one tick
\* timer is active at any time.
C18_CounterAndTimer ==
    /\ [] EvenBPMOneTimer
    /\ [][CountsOncePerEntry]_vars
    /\ [][TickReports]_vars

\* witness of C18: after a pause and a resume, a tick has just turned a
\* counter of at least 100 into the virtual BPM 200
C18_Witness ==
    /\ animPc = "mounted"
    /\ lastWasTick
    /\ qrsCountRef = 0
    /\ virtualBPM = 200
    /\ bpmTimeoutRef = "active"
    /\ activeTimers = 1
    /\ mixerSet

-----------------------------------------------------------------------------
(* The contract of ReverseECG's signal buffer and wave queue *)

\* C19: the signal buffer holds exactly 800 values after every animation
\* frame, for any number of samples appended in that frame (0, fewer than 800,
\* or more than 800), and always consists of the 800 most recently produced
\* values.
C19_BufferHolds800 ==
    revPc \in {"start", "mounted"} =>
        /\ Len(signalBuffer) = 800
        /\ Len(produced) >= 800
        /\ \A k \in 1..800 : signalBuffer[k] = produced[Len(produced) - 800 + k]

\* witness of C19: two frames have run, one appending 3 samples and one
\* appending 900
C19_Witness ==
    /\ revPc = "mounted"
    /\ frames = 2
    /\ speedMultiplier = 1
    /\ Len(produced) = 800 + 3 + 900
    /\ Len(signalBuffer) = 800

\* n zeros
Zeros(n) == [k \in 1..n |-> 0]

\* the complex the claim describes: 60 blanks, P wave, Q dip, R spike, S dip,
\* 3 blanks, T wave
ComplexInOrder == Zeros(60) \o pWave \o qDip \o rSpike \o sDip \o Zeros(3) \o tWave

\* n complexes, one after the other
RECURSIVE Complexes(_)
Complexes(n) == IF n = 0 THEN <<>> ELSE Complexes(n - 1) \o ComplexInOrder

\* what was queued is whole complexes, one per change to QRS, and the queue
\* holds what was queued and not yet taken, in the order it was queued
QueueIsFifo ==
    revPc \in {"start", "mounted"} =>
        /\ Len(pWave) = 30 /\ Len(qDip) = 10 /\ Len(rSpike) = 20
        /\ Len(sDip) = 10 /\ Len(tWave) = 40
        /\ Len(ComplexInOrder) = 173
        /\ enqueued = Complexes(qrsChanges)
        /\ consumed \o waveQueue = enqueued
        /\ Len(produced) = 800 + Len(consumed) + zeroFills

\* a change of currentPhase to 'QRS' queues one complex, and nothing else
\* queues anything
OneComplexPerChange ==
    IF currentPhase' = "QRS" /\ currentPhase # "QRS"
    THEN enqueued' = enqueued \o ComplexInOrder
    ELSE enqueued' = enqueued

\* every emitted sample carries the next queued sample, or 0 once the queue
\* is empty
EmitsInQueueOrder ==
    /\ zeroFills' > zeroFills => waveQueue' = <<>>
    /\ \A k \in 1..(Len(produced') - Len(produced)) :
          produced'[Len(produced) + k]
            - RevNoise(RandomDraw(rng, Len(produced) + k - 1)) - Baseline(now')
          = IF k <= Len(waveQueue) THEN waveQueue[k] ELSE 0

\* C20: each change of currentPhase to 'QRS' appends exactly one complex to
\* the wave queue, in the order 60 blanks, P wave (30), Q dip (10), R spike
\* (20), S dip (10), 3 blanks, T wave (40): 173 samples; queued samples are
\* consumed first-in first-out, one per emitted sample, 0 is used when the
\* queue is empty, and samples of two complexes are never interleaved,
\* reordered or dropped, for every interleaving of phase changes and frames.
C20_OneComplexFifo ==
    /\ [] QueueIsFifo
    /\ [][OneComplexPerChange]_vars
    /\ [][EmitsInQueueOrder]_vars

\* witness of C20: two complexes were queued; a frame took the first and part
\* of the second, a later frame emptied the queue and filled up with zeros
C20_Witness ==
    /\ revPc = "mounted"
    /\ qrsChanges = 2
    /\ Len(enqueued) = 346
    /\ Len(consumed) = 346
    /\ waveQueue = <<>>
    /\ zeroFills > 0
    /\ frames = 2
    /\ speedMultiplier = 1
    /\ Len(produced) = 800 + 180 + 180


-----------------------------------------------------------------------------
(* The chart's dataset *)

\* min(floor(timeElapsed x 300), ecgData.length - 1)
ShownIdx ==
    LET byTime == (chartTime * 300) \div 1000
    IN  IF byTime <= Len(ecgData) - 1 THEN byTime ELSE Len(ecgData) - 1

\* the samples before ShownIdx, at most 800 of them, behind zeros
ShownWindow ==
    LET n == IF ShownIdx < 800 THEN ShownIdx ELSE 800
    IN  [j \in 1..800 |-> IF j <= 800 - n THEN 0 ELSE ecgData[ShownIdx - (800 - j)].value]

\* C21: the main dataset of the chart always holds exactly 800 values; once
\* updateECG has updated the chart for the current timeElapsed and ecgData,
\* the dataset is the (at most 800) samples just before index
\* min(floor(timeElapsed x 300), ecgData.length - 1), in order, behind zeros,
\* and that index is at most the index of the last sample
C21_DatasetWindow ==
    chartData # <<>> =>
        /\ Len(chartData) = 800
        /\ chartAge >= 0 =>
               /\ ShownIdx <= Len(ecgData) - 1
               /\ chartData = ShownWindow

\* updateECG has drawn a window of 800 samples from the middle of 1020: the
\* samples with the (0-based) indices 100 to 899, before index 900
C21_Witness ==
    /\ chartAge >= 0
    /\ Len(ecgData) = 1020
    /\ chartTime = 3000
    /\ chartData[1] = ecgData[101].value
    /\ chartData[800] = ecgData[900].value
    /\ chartData[800] # chartData[799]

-----------------------------------------------------------------------------
(* The frame lookups of HeartModel and AnimationManager *)

\* the frame range of the label in HeartModel's table
FrameRangeOf(label) == HEARTBEAT_FRAMES[label]

\* C22: for every phase label an interval record may carry (P, QRS, PQ, ST,
\* T), the frame lookups of HeartModel's phase effect and of
\* AnimationManager's updateAnimationForPhase raise no error, and the target
\* frame HeartModel computes lies within the [start, end] range of its phase
C22_LookupsSucceed ==
    /\ hmPc # "crashed"
    /\ animPc # "crashed"
    /\ targetFrame # NoTarget =>
          /\ targetFrame.phase \in PhaseLabels
          /\ targetFrame.frame >= FrameRangeOf(targetFrame.phase).start
          /\ targetFrame.frame <= FrameRangeOf(targetFrame.phase).end

\* for the labels QRS, PQ and ST the claim's statement holds: a computed
\* target frame lies within the range of its phase
FramesInRange ==
    targetFrame # NoTarget =>
        /\ targetFrame.phase \in DOMAIN HEARTBEAT_FRAMES
        /\ targetFrame.frame >= FrameRangeOf(targetFrame.phase).start
        /\ targetFrame.frame <= FrameRangeOf(targetFrame.phase).end

\* HeartModel's lookup threw for the label P or T
HeartModelThrew ==
    /\ hmPc = "crashed"
    /\ hmIntervals[PhaseIndex(hmIntervals, 1, hmTime)].phase \in {"P", "T"}

\* AnimationManager's lookup threw for the label T
AnimationManagerThrew ==
    /\ animPc = "crashed"
    /\ NewPhase(pqrstIntervals, 1, timeElapsed) = "T"

-----------------------------------------------------------------------------
(* ECGVisualization's worker and the unmount *)

\* C23: once ECGVisualization has unmounted, every worker it created has been
\* terminated (none is created after the cleanup and left running), and
\* setEcgData is not called after the unmount
C23_TerminatedAfterUnmount ==
    vizUnmounted =>
        /\ workerPc # "none" => workerTerminated
        /\ ~ setAfterUnmount

\* when the worker exists at the unmount, the cleanup terminates it and its
\* reply is never handled
TerminatedIfCreatedBefore ==
    workerTerminated => vizUnmounted /\ inbox = <<>> /\ ~ setAfterUnmount

\* the component unmounted while loadIntervals was waiting; the worker was made
\* afterwards, ran to its end, and its reply reached setEcgData
LateWorkerReplied ==
    /\ vizUnmounted
    /\ workerPc = "finished"
    /\ ~ workerTerminated
    /\ setAfterUnmount

-----------------------------------------------------------------------------
(* AnimationManager as App renders it *)

\* App's virtualBPM is 72; AnimationManager has counted no QRS, tracks the
\* phase 'ST' it started with, and its phase effect would not call
\* setCurrentPhase
ManagerInert ==
    /\ appVirtualBPM = 72
    /\ qrsCountRef = 0
    /\ currentPhaseRef = "ST"
    /\ ~ CallsSetCurrentPhase(timeElapsed)

\* a step that changes currentPhase is a run of App's reference-line effect
\* for a new timeElapsed or a new interval array, and writes the phase at
\* the reference line
PhaseWrittenByApp ==
    currentPhase' # currentPhase =>
        /\ appTime' # appTime \/ appIntervals' # appIntervals
        /\ currentPhase' = NewPhase(appIntervals', 1, appTime' - 2500)

-----------------------------------------------------------------------------
(* ReverseECG paused and resumed *)

\* while the component is paused no step appends a sample to the buffer
PausedKeepsBuffer ==
    ~ isPlaying => /\ produced' = produced
                   /\ signalBuffer' = signalBuffer

\* the samples a frame at time t may append for the time since the last
\* frame that was not spent paused:
\* floor((simTime + (t - lastUpdateTime - pausedMs) / 1000 * speedMultiplier) * 300)
SamplesForPlayedTime(t) ==
    ((simTime + (t - lastUpdateTime - pausedMs) * 3 * speedMultiplier) * 300) \div 3000

\* a frame, the first one after a resume included, appends samples for played
\* time only
FirstFrameCountsFromResume ==
    frames' = frames + 1 =>
        Len(produced') - Len(produced) <= SamplesForPlayedTime(now')

\* C25: across play/pause toggles, samples are appended to the signal buffer
\* only for time spent playing: while isPlaying is false the buffer is
\* unchanged, and the first frame after a resume appends samples only for the
\* time elapsed since the resume, not for the paused interval
C25_OnlyPlayedTime ==
    /\ [][PausedKeepsBuffer]_vars
    /\ [][FirstFrameCountsFromResume]_vars

\* while the component is paused no step changes the wave queue
QueueKeptWhilePaused == [][~ isPlaying => waveQueue' = waveQueue]_vars

\* the buffer is kept while the component is paused
BufferKeptWhilePaused == [][PausedKeepsBuffer]_vars

\* a frame ran 10 ms after a resume that followed a pause of 5 s, and
\* appended the samples of 5.01 s
PausedTimeReplayed ==
    /\ isPlaying
    /\ frames = 1
    /\ speedMultiplier = 1
    /\ now = 5010
    /\ lastUpdateTime = 5010
    /\ Len(produced) = 800 + 1503

====
